---------------------------- MODULE Spec2Model ----------------------------
(***************************************************************************)
(* A model of the tesseract relayer core of hyperbridge:                   *)
(*   - NonceProvider (primitives/src/lib.rs): a tokio Mutex<u64> counter,  *)
(*     modelled step by step (lock, read, write, guard drop, return);      *)
(*   - submit_messages / wait_for_success (ethereum/evm/src/tx.rs);        *)
(*   - reconnect_with_exponential_back_off (primitives/src/lib.rs);        *)
(*   - SubstrateClient::reconnect (substrate/common/src/host.rs);          *)
(*   - Cli::run, create_client_map and initialize_consensus_clients        *)
(*     (relayer/src/cli.rs);                                               *)
(*   - ArbHost::latest_event and ArbHost::fetch_arbitrum_payload           *)
(*     (ethereum/evm/src/arbitrum/client.rs);                              *)
(*   - create_client_map and the L2-host registry (relayer/src/cli.rs).    *)
(* u64 values whose overflow matters are kept at full width as four 16-bit *)
(* limbs, most significant first.                                          *)
(***************************************************************************)
EXTENDS Integers, Sequences, FiniteSets, TLC

VARIABLES
    overflow_checks, \* build profile: TRUE = `nonce + 1` panics on overflow, FALSE = wraps
    initial,         \* the value NonceProvider::new was given
    counter,         \* the u64 inside Arc<Mutex<u64>>
    holder,          \* the set of tasks owning the MutexGuard: one task, or none when unlocked
    waiters,         \* FIFO queue of tasks suspended in lock().await
    pc,              \* each task's position
    local,           \* get_nonce's local `nonce`
    nonce,           \* the caller's binding of the value get_nonce returned
    returned,        \* values returned by get_nonce, in the order the calls completed
    drawn,           \* values read by get_nonce, in the order the increments ran
    calls_left,      \* calls a plain caller may still start
    batch_len,       \* length of the `messages` argument of submit_messages
    idx,             \* number of messages the for loop has taken
    msg,             \* the message of the current iteration
    has_np,          \* whether the client's nonce_provider is Some
    result,          \* what submit_messages returned: "none", "Ok", "Err", "panic"
    chain,           \* transactions the node accepted, in arrival order
    stats,           \* per task, how each processed message ended
    rc_pc,           \* position in reconnect_with_exponential_back_off
    reconnects,      \* its `reconnects` argument
    attempts,        \* calls made to chain.reconnect
    initial_backoff, \* its local `initial_backoff`
    sleeps,          \* the durations passed to tokio::time::sleep, in order
    outcomes,        \* the result of each chain.reconnect call, in order
    rc_result,       \* what the function returned
    enc_in,          \* input of the message encoder
    enc_out,         \* the leaves it produced
    sc_heap,         \* the counters of the NonceProviders allocated, by identity
    sc_orig,         \* the client's nonce_provider, counter and config when the run starts
    sc_client,       \* the SubstrateClient behind `&mut self`
    sc_pc,           \* position in SubstrateClient::reconnect
    sc_saved,        \* its local `nonce_provider`
    sc_new,          \* its local `new_client`
    sc_log,          \* the get_nonce calls made through the allocator, in order
    sc_results,      \* what the reconnect calls returned, in order
    sc_onchain,      \* the signer's nonce on the chain
    run_pc,          \* position in Cli::run
    run_cfg,         \* relayer.consensus, relayer.messaging, and whether a setup flag is set
    run_heap,        \* number of NonceProviders allocated so far; each is named by its rank
    run_hub,         \* hyperbridge_nonce_provider
    run_map,         \* client_map: the provider held by each client not yet moved into a task
    run_nps,         \* nonce_providers, from the first create_client_map
    run_clients,     \* clients, from the second create_client_map, not yet moved into a task
    processes,       \* the spawned tasks: the providers their clients hold and how they ended
    run_result,      \* what Cli::run returned
    st_pc,           \* position in initialize_consensus_clients
    st_flags,        \* its setup_eth and setup_para arguments
    st_installed,    \* per spoke, how many times the hub's consensus state was installed
    st_hub,          \* the spokes whose consensus state the hub was given
    st_has,          \* per spoke, whether its get_initial_consensus_state yields Some
    st_log,          \* the installations made, in order: direction and spoke
    st_todo,         \* the chains the current for loop has not reached yet
    st_result,       \* what it returned
    arb_pc,          \* position in latest_event, then in fetch_arbitrum_payload
    arb_log,         \* the NodeCreated events the rollup contract emitted on L1
    arb_range,       \* the `from` and `to` arguments of latest_event
    arb_events,      \* its local `events`
    arb_result,      \* what latest_event returned
    arb_head,        \* the latest L1 block
    arb_at,          \* the `at` argument of fetch_arbitrum_payload
    arb_proof,       \* its local `proof`, with the request that obtained it
    arb_header,      \* what fetch_header answered
    arb_payload,     \* what fetch_arbitrum_payload returned
    cm_pc,           \* position in Cli::run and in the create_client_map it calls
    cm_cfg,          \* relayer.consensus, relayer.messaging and config.chains
    cm_call,         \* the create_client_map calls begun
    cm_todo,         \* the chains its for loop has not reached yet
    cm_clients,      \* its local `clients`, then the `clients` of Cli::run
    cm_l2_hosts,     \* its local `l2_hosts`
    cm_next,         \* the clients built so far; each is named by its rank
    cm_maps,         \* the client maps the calls returned, in order
    cm_tasks,        \* the clients moved into spawned relay tasks
    cm_log,          \* the set_l2_hosts calls, in order
    cm_result,       \* what Cli::run returned
    da_pc,           \* position in deposit_asset
    da_in,           \* its arguments and the pallet's protocol fee percentage
    da_fees,         \* its local `protocol_fees`
    da_remainder,    \* its local `remainder`
    da_minted,       \* the mint_into calls that succeeded: account and amount
    da_dispatched,   \* the amounts dispatch_request was called with and accepted
    da_result        \* what deposit_asset returned

nonceVars == <<overflow_checks, initial, counter, holder, waiters, local, nonce,
               returned, drawn, calls_left>>
submitVars == <<batch_len, idx, msg, has_np, result, chain, stats>>
reconnectVars == <<rc_pc, reconnects, attempts, initial_backoff, sleeps, outcomes, rc_result>>
encodeVars == <<enc_in, enc_out>>
clientVars == <<sc_heap, sc_orig, sc_client, sc_pc, sc_saved, sc_new, sc_log, sc_results,
               sc_onchain>>
coreVars == <<nonceVars, pc, submitVars, reconnectVars, encodeVars>>
runVars == <<run_pc, run_cfg, run_heap, run_hub, run_map, run_nps, run_clients, processes,
            run_result>>
setupVars == <<st_pc, st_flags, st_installed, st_hub, st_has, st_log, st_todo, st_result>>
arbVars == <<arb_pc, arb_log, arb_range, arb_events, arb_result, arb_head, arb_at, arb_proof,
            arb_header, arb_payload>>
cmVars == <<cm_pc, cm_cfg, cm_call, cm_todo, cm_clients, cm_l2_hosts, cm_next, cm_maps,
           cm_tasks, cm_log, cm_result>>
daVars == <<da_pc, da_in, da_fees, da_remainder, da_minted, da_dispatched, da_result>>
restVars == <<clientVars, runVars, setupVars, arbVars, cmVars, daVars>>
vars == <<coreVars, restVars>>

----------------------------------------------------------------------------
(* Bounds *)

NumCallers == 2
MaxCalls == 2

----------------------------------------------------------------------------
(* u64 arithmetic on four 16-bit limbs *)

Limb == 2^16

U64(n) == <<0, 0, 0, n>>

U64Max == <<Limb - 1, Limb - 1, Limb - 1, Limb - 1>>

\* v + 1 modulo 2^64
U64WrappingInc(v) ==
    IF v[4] < Limb - 1 THEN [v EXCEPT ![4] = @ + 1]
    ELSE IF v[3] < Limb - 1 THEN [v EXCEPT ![4] = 0, ![3] = @ + 1]
    ELSE IF v[2] < Limb - 1 THEN [v EXCEPT ![4] = 0, ![3] = 0, ![2] = @ + 1]
    ELSE IF v[1] < Limb - 1 THEN [v EXCEPT ![4] = 0, ![3] = 0, ![2] = 0, ![1] = @ + 1]
    ELSE <<0, 0, 0, 0>>

RECURSIVE U64WrappingAdd(_, _)
U64WrappingAdd(v, n) == IF n = 0 THEN v ELSE U64WrappingAdd(U64WrappingInc(v), n - 1)

U64Lt(a, b) ==
    \E i \in 1..4 : a[i] < b[i] /\ \A j \in 1..(i - 1) : a[j] = b[j]

----------------------------------------------------------------------------
(* NonceProvider *)

NoTask == {}
NoValue == <<>>

Tasks == DOMAIN pc

\* NonceProvider::new
NonceProviderNew(n) == n

\* self.nonce.lock().await, first poll: the guard when the mutex is free, else a
\* place at the back of the FIFO wait queue.
GnLock(t) ==
    /\ pc[t] = "gn_lock"
    /\ IF holder = NoTask
          THEN /\ holder' = {t}
               /\ pc' = [pc EXCEPT ![t] = "gn_locked"]
               /\ UNCHANGED waiters
          ELSE /\ waiters' = Append(waiters, t)
               /\ pc' = [pc EXCEPT ![t] = "gn_wait"]
               /\ UNCHANGED holder
    /\ UNCHANGED <<overflow_checks, initial, counter, local, nonce, returned, drawn, calls_left>>
    /\ UNCHANGED <<submitVars, reconnectVars, encodeVars, restVars>>

\* a mutex that lets a waiter through while another task holds the guard
MutexGrantedBarging(t) == TRUE

\* lock().await resumes once the guard was handed to this waiter
MutexGranted(t) == t \in holder

GnWake(t) ==
    /\ pc[t] = "gn_wait"
    /\ MutexGranted(t)
    /\ pc' = [pc EXCEPT ![t] = "gn_locked"]
    /\ UNCHANGED <<nonceVars, submitVars, reconnectVars, encodeVars, restVars>>

\* let nonce = *guard;
GnRead(t) ==
    /\ pc[t] = "gn_locked"
    /\ local' = [local EXCEPT ![t] = counter]
    /\ pc' = [pc EXCEPT ![t] = "gn_read"]
    /\ UNCHANGED <<overflow_checks, initial, counter, holder, waiters, nonce, returned,
                   drawn, calls_left>>
    /\ UNCHANGED <<submitVars, reconnectVars, encodeVars, restVars>>

\* a guard that outlives get_nonce's body: the caller keeps the mutex
GuardDropNot == holder

\* dropping the MutexGuard: the permit goes to the first waiter, if any
GuardDrop == IF waiters = <<>> THEN NoTask ELSE {Head(waiters)}

WaitersAfterDrop == IF waiters = <<>> THEN waiters ELSE Tail(waiters)

\* a store that forgets the increment
IncrementedNot(n) == n

\* what `*guard = nonce + 1` stores
Incremented(n) == U64WrappingInc(n)

\* *guard = nonce + 1;  With overflow checks the addition panics at u64::MAX: the
\* guard is dropped by the unwinding and the task ends.
GnWrite(t) ==
    /\ pc[t] = "gn_read"
    /\ IF local[t] = U64Max /\ overflow_checks
          THEN /\ holder' = GuardDrop
               /\ waiters' = WaitersAfterDrop
               /\ pc' = [pc EXCEPT ![t] = "panicked"]
               /\ result' = [result EXCEPT ![t] = "panic"]
               /\ UNCHANGED <<counter, drawn>>
          ELSE /\ counter' = Incremented(local[t])
               /\ drawn' = Append(drawn, local[t])
               /\ pc' = [pc EXCEPT ![t] = "gn_written"]
               /\ UNCHANGED <<holder, waiters, result>>
    /\ UNCHANGED <<overflow_checks, initial, local, nonce, returned, calls_left>>
    /\ UNCHANGED <<batch_len, idx, msg, has_np, chain, stats>>
    /\ UNCHANGED <<reconnectVars, encodeVars, restVars>>

\* end of get_nonce's body: the guard goes out of scope
GnUnlock(t) ==
    /\ pc[t] = "gn_written"
    /\ holder' = GuardDrop
    /\ waiters' = WaitersAfterDrop
    /\ pc' = [pc EXCEPT ![t] = "gn_unlocked"]
    /\ UNCHANGED <<overflow_checks, initial, counter, local, nonce, returned, drawn, calls_left>>
    /\ UNCHANGED <<submitVars, reconnectVars, encodeVars, restVars>>

\* the future resolves with the value; `to` is where the caller goes on, `bind`
\* whether it keeps the value in a variable of its own
GnReturn(t, to, bind) ==
    /\ pc[t] = "gn_unlocked"
    /\ nonce' = IF bind THEN [nonce EXCEPT ![t] = local[t]] ELSE nonce
    /\ local' = [local EXCEPT ![t] = NoValue]
    /\ returned' = Append(returned, local[t])
    /\ pc' = [pc EXCEPT ![t] = to]
    /\ UNCHANGED <<overflow_checks, initial, counter, holder, waiters, drawn>>
    /\ UNCHANGED <<submitVars, reconnectVars, encodeVars, restVars>>

----------------------------------------------------------------------------
(* Concurrent callers of one shared NonceProvider *)

\* a caller that only observes the values: it calls get_nonce while it has calls left
CallerReturn(t) ==
    /\ GnReturn(t, IF calls_left[t] > 1 THEN "gn_lock" ELSE "idle", FALSE)
    /\ calls_left' = [calls_left EXCEPT ![t] = @ - 1]

\* a signer's nonce on chain when the relayer starts, far from u64::MAX
StartNonce == U64(5)

\* the initial nonces tried: a small one and the two next to the top of u64
InitialNonces == {StartNonce, [U64Max EXCEPT ![4] = Limb - 2], U64Max}

NoSubmit ==
    /\ batch_len = <<>> /\ idx = <<>> /\ msg = <<>> /\ has_np = <<>>
    /\ chain = <<>> /\ stats = <<>>

NoReconnect ==
    /\ rc_pc = "off" /\ reconnects = 0 /\ attempts = 0 /\ initial_backoff = 0
    /\ sleeps = <<>> /\ outcomes = <<>> /\ rc_result = "none"

NoEncode == enc_in = <<>> /\ enc_out = [done |-> FALSE, leaves |-> <<>>]

NoClient ==
    /\ sc_heap = <<>> /\ sc_orig = <<>> /\ sc_client = <<>> /\ sc_pc = "off"
    /\ sc_saved = 0 /\ sc_new = <<>> /\ sc_log = <<>> /\ sc_results = <<>>
    /\ sc_onchain = 0

NoRun ==
    /\ run_pc = "off" /\ run_cfg = <<>> /\ run_heap = 0 /\ run_hub = 0 /\ run_map = <<>>
    /\ run_nps = <<>> /\ run_clients = <<>> /\ processes = <<>> /\ run_result = "none"

NoSetup ==
    /\ st_pc = "off" /\ st_flags = <<>> /\ st_installed = <<>> /\ st_hub = {}
    /\ st_has = <<>> /\ st_log = <<>> /\ st_todo = {} /\ st_result = "none"

NoArb ==
    /\ arb_pc = "off" /\ arb_log = <<>> /\ arb_range = <<>> /\ arb_events = <<>>
    /\ arb_result = <<>> /\ arb_head = 0 /\ arb_at = 0 /\ arb_proof = <<>>
    /\ arb_header = <<>> /\ arb_payload = <<>>

NoClientMap ==
    /\ cm_pc = "off" /\ cm_cfg = <<>> /\ cm_call = 0 /\ cm_todo = {} /\ cm_clients = <<>>
    /\ cm_l2_hosts = <<>> /\ cm_next = 0 /\ cm_maps = <<>> /\ cm_tasks = {} /\ cm_log = <<>>
    /\ cm_result = "none"

NoDeposit ==
    /\ da_pc = "off" /\ da_in = <<>> /\ da_fees = 0 /\ da_remainder = 0 /\ da_minted = <<>>
    /\ da_dispatched = <<>> /\ da_result = "none"

NoRest == NoClient /\ NoRun /\ NoSetup /\ NoArb /\ NoClientMap /\ NoDeposit

NonceInit(T, nonces, builds) ==
    /\ overflow_checks \in builds
    /\ initial \in nonces
    /\ counter = NonceProviderNew(initial)
    /\ holder = NoTask
    /\ waiters = <<>>
    /\ local = [t \in T |-> NoValue]
    /\ nonce = [t \in T |-> NoValue]
    /\ returned = <<>>
    /\ drawn = <<>>
    /\ result = [t \in T |-> "none"]

InitNonce ==
    /\ NonceInit(1..NumCallers, InitialNonces, BOOLEAN)
    /\ pc = [t \in 1..NumCallers |-> "gn_lock"]
    /\ calls_left = [t \in 1..NumCallers |-> MaxCalls]
    /\ NoSubmit /\ NoReconnect /\ NoEncode /\ NoRest

NextNonce ==
    \/ \E t \in Tasks : GnLock(t)
    \/ \E t \in Tasks : GnWake(t)
    \/ \E t \in Tasks : GnRead(t)
    \/ \E t \in Tasks : GnWrite(t)
    \/ \E t \in Tasks : GnUnlock(t)
    \/ \E t \in Tasks : CallerReturn(t)

SpecNonce == InitNonce /\ [][NextNonce]_vars

----------------------------------------------------------------------------
(* Merkle mountain range indexing used by the message encoder *)

RECURSIVE CountOnes(_)
CountOnes(n) == IF n = 0 THEN 0 ELSE (n % 2) + CountOnes(n \div 2)

\* NodesUtils::new(leaf_count).size(): the number of nodes of the MMR
MmrSize(leaf_count) == 2 * leaf_count - CountOnes(leaf_count)

RECURSIVE TreeHeight(_)
\* height of the largest perfect tree with at most `size` nodes
TreeHeight(size) == IF size < 3 THEN 0 ELSE 1 + TreeHeight((size - 1) \div 2)

RECURSIVE Peaks(_, _)
\* get_peaks: the peaks of an MMR of `size` nodes whose first node is `offset`,
\* as <<position, height>>, left to right
Peaks(offset, size) ==
    IF size = 0 THEN <<>>
    ELSE LET h == TreeHeight(size)
             n == 2^(h + 1) - 1
         IN  <<<<offset + n - 1, h>>>> \o Peaks(offset + n, size - n)

RECURSIVE Descend(_, _, _, _)
\* the walk from a peak down to `pos`: left child = parent - 2^height, right child
\* = parent - 1; k_index collects the turns
Descend(pos, parent, height, index) ==
    IF height = 0 THEN index
    ELSE LET left == parent - 2^height
             right == parent - 1
         IN  IF left >= pos
                THEN Descend(pos, left, height - 1, 2 * index)
                ELSE Descend(pos, right, height - 1, 2 * index + 1)

\* mmr_position_to_k_index(vec![pos], mmr_size)[0].1, for a position inside the MMR
KIndex(pos, mmr_size) ==
    LET peaks == Peaks(0, mmr_size)
        first == CHOOSE i \in 1..Len(peaks) :
                    /\ pos <= peaks[i][1]
                    /\ \A j \in 1..(i - 1) : pos > peaks[j][1]
    IN  Descend(pos, peaks[first][1], peaks[first][2], 0)

----------------------------------------------------------------------------
(* The message encoder of submit_messages *)

Min(a, b) == IF a < b THEN a ELSE b

\* a pairing that gives up when the lengths differ
ZipEqualOnly(a, b) ==
    IF Len(a) = Len(b) THEN [i \in 1..Len(a) |-> <<a[i], b[i]>>] ELSE <<>>

\* Iterator::zip: pairs up to the shorter length
Zip(a, b) == [i \in 1..Min(Len(a), Len(b)) |-> <<a[i], b[i]>>]

\* k_and_leaf_indices: (pos, leaf_index) -> (k_index, leaf_index)
KAndLeafIndices(lpi, leaf_count) ==
    [i \in 1..Len(lpi) |-> <<KIndex(lpi[i][1], MmrSize(leaf_count)), lpi[i][2]>>]

RECURSIVE InsertByIndex(_, _)
\* `leaf` put behind every leaf of the sorted `leaves` whose index is not larger
InsertByIndex(leaves, leaf) ==
    IF leaves = <<>> THEN <<leaf>>
    ELSE IF leaf.index < Head(leaves).index THEN <<leaf>> \o leaves
    ELSE <<Head(leaves)>> \o InsertByIndex(Tail(leaves), leaf)

RECURSIVE StableSort(_)
StableSort(leaves) ==
    IF leaves = <<>> THEN <<>>
    ELSE InsertByIndex(StableSort(SubSeq(leaves, 1, Len(leaves) - 1)), leaves[Len(leaves)])

\* an encoder that forgets to sort
SortByIndexNot(leaves) == leaves

\* leaves.sort_by_key(|leaf| leaf.index): a stable sort
SortByIndex(leaves) == StableSort(leaves)

\* the leaves of a PostRequestMessage; a request is named by its place in msg.requests
PostRequestLeaves(requests, lpi, leaf_count) ==
    LET zipped == Zip(requests, KAndLeafIndices(lpi, leaf_count))
    IN  SortByIndex([i \in 1..Len(zipped) |->
            [item |-> zipped[i][1], index |-> zipped[i][2][2], k_index |-> zipped[i][2][1]]])

RECURSIVE FilterPost(_)
\* filter_map keeping the Response::Post entries of the zipped sequence
FilterPost(zipped) ==
    IF zipped = <<>> THEN <<>>
    ELSE LET z == Head(zipped)
         IN  (IF z[1].variant = "Post"
                 THEN <<[item |-> z[1].id, index |-> z[2][2], k_index |-> z[2][1]]>>
                 ELSE <<>>) \o FilterPost(Tail(zipped))

\* an encoder that drops the Get responses before pairing with the proof's positions
PostResponseLeavesFilterFirst(responses, lpi, leaf_count) ==
    SortByIndex(FilterPost(Zip(SelectSeq(responses, LAMBDA r : r.variant = "Post"),
                               KAndLeafIndices(lpi, leaf_count))))

\* the leaves of a PostResponseMessage
PostResponseLeaves(responses, lpi, leaf_count) ==
    SortByIndex(FilterPost(Zip(responses, KAndLeafIndices(lpi, leaf_count))))

----------------------------------------------------------------------------
(* The encoder on its own, over every bounded membership proof *)

MaxLeaves == 3

\* positions of leaves 0, 1, 2 in an MMR
LeafPositions == {0, 1, 3}
LeafIndices == 0..2
LeafCounts == {3, 4}

SeqsUpTo(S, n) == UNION {[1..k -> S] : k \in 0..n}

Ids(n) == [i \in 1..n |-> i]

WithIds(variants) == [i \in 1..Len(variants) |-> [id |-> i, variant |-> variants[i]]]

\* a RequestMessage or a ResponseMessage with a decoded proof; `variants` are the
\* Response variants of the datagram (for a request message only their number counts)
EncodeInput(kind, variants, lpi, leaf_count) ==
    [kind |-> kind,
     items |-> IF kind = "Request" THEN Ids(Len(variants)) ELSE WithIds(variants),
     lpi |-> lpi, leaf_count |-> leaf_count]

NotEncoded == [done |-> FALSE, leaves |-> <<>>]

EncoderOutput(leaves) == [done |-> TRUE, leaves |-> leaves]

EncodePostRequest ==
    /\ enc_out = NotEncoded
    /\ enc_in.kind = "Request"
    /\ enc_out' = EncoderOutput(PostRequestLeaves(enc_in.items, enc_in.lpi, enc_in.leaf_count))
    /\ UNCHANGED <<enc_in, nonceVars, pc, submitVars, reconnectVars, restVars>>

EncodePostResponse ==
    /\ enc_out = NotEncoded
    /\ enc_in.kind = "Response"
    /\ enc_out' = EncoderOutput(PostResponseLeaves(enc_in.items, enc_in.lpi, enc_in.leaf_count))
    /\ UNCHANGED <<enc_in, nonceVars, pc, submitVars, reconnectVars, restVars>>

NoTasks ==
    /\ overflow_checks = FALSE /\ initial = U64(0) /\ counter = U64(0)
    /\ holder = NoTask /\ waiters = <<>> /\ pc = <<>> /\ local = <<>> /\ nonce = <<>>
    /\ returned = <<>> /\ drawn = <<>> /\ calls_left = <<>> /\ result = <<>>

InitEncode ==
    /\ \E kind \in {"Request", "Response"}, c \in LeafCounts :
       \E v \in SeqsUpTo({"Post", "Get"}, MaxLeaves) :
       \E p \in SeqsUpTo(LeafPositions \X LeafIndices, MaxLeaves) :
          enc_in = EncodeInput(kind, v, p, c)
    /\ enc_out = NotEncoded
    /\ NoTasks /\ NoSubmit /\ NoReconnect /\ NoRest

NextEncode == EncodePostRequest \/ EncodePostResponse

SpecEncode == InitEncode /\ [][NextEncode]_vars

----------------------------------------------------------------------------
(* submit_messages *)

MaxBatch == 3
MaxConcurrentBatch == 1

\* Cli::run spawns two tasks per spoke, both on clients holding the spoke's NonceProvider
RelayTasks == {"consensus", "messaging"}

Msg(kind, decodes, tag, items, lpi, leaf_count) ==
    [kind |-> kind, decodes |-> decodes, tag |-> tag, items |-> items, lpi |-> lpi,
     leaf_count |-> leaf_count]

NoMsg == Msg("none", TRUE, "none", <<>>, <<>>, 0)

\* StateMachine variants of proof.height.id.state_id
Tags == {"Polkadot", "Kusama", "Ethereum"}

\* a membership proof of two leaves, listed out of order
SampleProof == <<<<1, 1>>, <<0, 0>>>>

\* proof-carrying messages whose proof bytes do not decode
Undecodable ==
    {Msg(k, FALSE, "Polkadot", <<>>, <<>>, 0) :
        k \in {"Request", "Response", "GetResponse", "TimeoutPost", "TimeoutPostResponse"}}

Decodable ==
    UNION {
        {Msg("Request", TRUE, g, Ids(2), SampleProof, 3)}
        \cup {Msg("Response", TRUE, g, WithIds(v), SampleProof, 3) :
                v \in {<<"Post", "Post">>, <<"Get", "Post">>, <<"Get">>}}
        \cup {Msg("GetResponse", TRUE, g, v, <<>>, 0) :
                v \in {<<"Get", "Get">>, <<"Get", "Post">>}}
        \cup {Msg("TimeoutPost", TRUE, g, <<"Post", "Get">>, <<>>, 0)}
        \cup {Msg("TimeoutPostResponse", TRUE, g, <<"Post">>, <<>>, 0)}
      : g \in Tags}

AllMessages ==
    {Msg("Consensus", TRUE, "none", <<>>, <<>>, 0),
     Msg("FraudProof", TRUE, "none", <<>>, <<>>, 0),
     Msg("TimeoutGet", TRUE, "none", <<"Get", "Post">>, <<>>, 0)}
    \cup Undecodable \cup Decodable

\* the messages of the runs with several relay tasks
FewMessages ==
    {Msg("Consensus", TRUE, "none", <<>>, <<>>, 0),
     Msg("Request", FALSE, "Polkadot", <<>>, <<>>, 0),
     Msg("Request", TRUE, "Ethereum", Ids(2), SampleProof, 3)}

RECURSIVE Keep(_, _)
\* filter_map keeping the entries of one variant
Keep(items, variant) ==
    IF items = <<>> THEN <<>>
    ELSE (IF Head(items) = variant THEN <<Head(items)>> ELSE <<>>) \o Keep(Tail(items), variant)

\* StateMachine::Polkadot(id) | StateMachine::Kusama(id)
TagAccepted(tag) == tag \in {"Polkadot", "Kusama"}

Send(call, payload) == [do |-> "send", why |-> "send", call |-> call, payload |-> payload]
Skip(why) == [do |-> "skip", why |-> why, call |-> "none", payload |-> <<>>]
Panic(why) == [do |-> "panic", why |-> why, call |-> "none", payload |-> <<>>]

\* a conversion that lets every request through
AllGetLenient(requests) == TRUE

\* requests.into_iter().map(|req| req.get_request()..).collect::<Result<Vec<_>, _>>()
\* is Ok: every request of the datagram is a Get request
AllGet(requests) == \A i \in 1..Len(requests) : requests[i] = "Get"

\* one arm of `match msg`, up to the call it builds: what the iteration does with m
Encode(m) ==
    CASE m.kind = "Consensus" -> Send("handle_consensus", <<>>)
      [] m.kind = "Request" ->
            IF ~m.decodes THEN Skip("decode_skip")
            ELSE IF ~TagAccepted(m.tag) THEN Panic("tag_panic")
            ELSE Send("handle_post_requests",
                      PostRequestLeaves(m.items, m.lpi, m.leaf_count))
      [] m.kind = "Response" ->
            IF ~m.decodes THEN Skip("decode_skip")
            ELSE IF ~TagAccepted(m.tag) THEN Skip("tag_skip")
            ELSE Send("handle_post_responses",
                      PostResponseLeaves(m.items, m.lpi, m.leaf_count))
      [] m.kind = "GetResponse" ->
            IF ~AllGet(m.items) THEN Skip("notget_skip")
            ELSE IF ~m.decodes THEN Skip("decode_skip")
            ELSE IF ~TagAccepted(m.tag) THEN Skip("tag_skip")
            ELSE Send("handle_get_responses", m.items)
      [] m.kind = "TimeoutPost" ->
            IF ~m.decodes THEN Skip("decode_skip")
            ELSE IF ~TagAccepted(m.tag) THEN Skip("tag_skip")
            ELSE Send("handle_post_request_timeouts", Keep(m.items, "Post"))
      [] m.kind = "TimeoutPostResponse" ->
            IF ~m.decodes THEN Skip("decode_skip")
            ELSE IF ~TagAccepted(m.tag) THEN Skip("tag_skip")
            ELSE Send("handle_post_response_timeouts", m.items)
      [] m.kind = "TimeoutGet" ->
            Send("handle_get_request_timeouts", Keep(m.items, "Get"))
      [] OTHER -> Skip("unhandled")

\* a `continue` that leaves the function instead
AfterSkipReturn(why) == IF why = "decode_skip" THEN "done" ELSE "loop"

\* where `continue`, or the end of the `_` arm, leads: the next iteration
AfterSkip(why) == "loop"

\* a submission that treats an empty batch as an error
LoopResultNonEmpty(t) == IF batch_len[t] = 0 THEN "Err" ELSE "Ok"

\* the value submit_messages returns after the loop
LoopResult(t) == "Ok"

\* a loop body that draws a nonce only for the messages it will send
FirstStepIfSent(m) == IF Encode(m).do = "skip" THEN "match" ELSE "gn_lock"

\* let nonce = client.get_nonce().await?; is the first statement of the loop body,
\* in front of `match msg`
FirstStep(m) == "gn_lock"

\* for msg in messages { let nonce = client.get_nonce().await?; .. } Ok(())
\* EvmClient::get_nonce is an error when the client has no nonce provider.
SmLoop(t, M) ==
    /\ pc[t] = "loop"
    /\ IF idx[t] < batch_len[t]
          THEN /\ idx' = [idx EXCEPT ![t] = @ + 1]
               /\ \E m \in M :
                     /\ msg' = [msg EXCEPT ![t] = m]
                     /\ IF has_np[t]
                           THEN /\ pc' = [pc EXCEPT ![t] = FirstStep(m)]
                                /\ UNCHANGED result
                           ELSE /\ pc' = [pc EXCEPT ![t] = "done"]
                                /\ result' = [result EXCEPT ![t] = "Err"]
          ELSE /\ pc' = [pc EXCEPT ![t] = "done"]
               /\ result' = [result EXCEPT ![t] = LoopResult(t)]
               /\ UNCHANGED <<msg, idx>>
    /\ UNCHANGED <<batch_len, has_np, chain, stats>>
    /\ UNCHANGED <<nonceVars, reconnectVars, encodeVars, restVars>>

SmGnReturn(t) ==
    /\ GnReturn(t, "match", TRUE)
    /\ UNCHANGED calls_left

\* a decode error, a rejected tag, a non-Get request or an unhandled variant: log
SmSkip(t) ==
    /\ pc[t] = "match"
    /\ Encode(msg[t]).do = "skip"
    /\ stats' = [stats EXCEPT ![t] = Append(@, Encode(msg[t]).why)]
    /\ pc' = [pc EXCEPT ![t] = AfterSkip(Encode(msg[t]).why)]
    /\ UNCHANGED <<batch_len, idx, msg, has_np, result, chain>>
    /\ UNCHANGED <<nonceVars, reconnectVars, encodeVars, restVars>>

\* panic!("Expected polkadot or kusama state machines")
SmPanic(t) ==
    /\ pc[t] = "match"
    /\ Encode(msg[t]).do = "panic"
    /\ stats' = [stats EXCEPT ![t] = Append(@, Encode(msg[t]).why)]
    /\ pc' = [pc EXCEPT ![t] = "panicked"]
    /\ result' = [result EXCEPT ![t] = "panic"]
    /\ UNCHANGED <<batch_len, idx, msg, has_np, chain>>
    /\ UNCHANGED <<nonceVars, reconnectVars, encodeVars, restVars>>

\* the transaction of the current iteration; `pos` is the position of its message
\* in the `messages` argument
Tx(t) == [by |-> t, pos |-> idx[t], nonce |-> nonce[t], call |-> Encode(msg[t]).call,
          payload |-> Encode(msg[t]).payload]

\* a submission that does not await the confirmation of what it sent
AfterSendDetached == "loop"

\* Ok(progress) => wait_for_success(progress, ..).await
AfterSend == "wait"

\* contract.handle_..(..).nonce(nonce).gas(..).send().await is Ok(progress)
SmSendOk(t) ==
    /\ pc[t] = "match"
    /\ Encode(msg[t]).do = "send"
    /\ chain' = Append(chain, Tx(t))
    /\ pc' = [pc EXCEPT ![t] = AfterSend]
    /\ UNCHANGED <<batch_len, idx, msg, has_np, result, stats>>
    /\ UNCHANGED <<nonceVars, reconnectVars, encodeVars, restVars>>

\* .. is Err(err): log
SmSendErr(t) ==
    /\ pc[t] = "match"
    /\ Encode(msg[t]).do = "send"
    /\ stats' = [stats EXCEPT ![t] = Append(@, "send_err")]
    /\ pc' = [pc EXCEPT ![t] = "loop"]
    /\ UNCHANGED <<batch_len, idx, msg, has_np, result, chain>>
    /\ UNCHANGED <<nonceVars, reconnectVars, encodeVars, restVars>>

\* wait_for_success: tx.confirmations(..).await, an error is logged
wait_for_success(t) ==
    /\ pc[t] = "wait"
    /\ \E outcome \in {"confirmed", "confirm_err"} :
          stats' = [stats EXCEPT ![t] = Append(@, outcome)]
    /\ pc' = [pc EXCEPT ![t] = "loop"]
    /\ UNCHANGED <<batch_len, idx, msg, has_np, result, chain>>
    /\ UNCHANGED <<nonceVars, reconnectVars, encodeVars, restVars>>

SubmitInit(T, lens) ==
    /\ pc = [t \in T |-> "loop"]
    /\ calls_left = [t \in T |-> 0]
    /\ batch_len \in [T -> lens]
    /\ idx = [t \in T |-> 0]
    /\ msg = [t \in T |-> NoMsg]
    /\ has_np \in [T -> BOOLEAN]
    /\ chain = <<>>
    /\ stats = [t \in T |-> <<>>]

\* one relay task, every kind of message; the counter stays far from u64::MAX in
\* these runs, so the build's overflow behaviour is never exercised
InitSubmit ==
    /\ NonceInit({"messaging"}, {StartNonce}, {FALSE})
    /\ SubmitInit({"messaging"}, 0..MaxBatch)
    /\ NoReconnect /\ NoEncode /\ NoRest

\* with one task the mutex is never contended: GnWake has nothing to wake
NextSubmit ==
    \/ \E t \in Tasks : SmLoop(t, AllMessages)
    \/ \E t \in Tasks : GnLock(t)
    \/ \E t \in Tasks : GnRead(t)
    \/ \E t \in Tasks : GnWrite(t)
    \/ \E t \in Tasks : GnUnlock(t)
    \/ \E t \in Tasks : SmGnReturn(t)
    \/ \E t \in Tasks : SmSkip(t)
    \/ \E t \in Tasks : SmPanic(t)
    \/ \E t \in Tasks : SmSendOk(t)
    \/ \E t \in Tasks : SmSendErr(t)
    \/ \E t \in Tasks : wait_for_success(t)

SpecSubmit == InitSubmit /\ [][NextSubmit]_vars

\* the two relay tasks of a spoke, on clients sharing one NonceProvider
InitConcurrent ==
    /\ NonceInit(RelayTasks, {StartNonce}, {FALSE})
    /\ SubmitInit(RelayTasks, 0..MaxConcurrentBatch)
    /\ NoReconnect /\ NoEncode /\ NoRest

NextConcurrent ==
    \/ \E t \in Tasks : SmLoop(t, FewMessages)
    \/ \E t \in Tasks : GnLock(t)
    \/ \E t \in Tasks : GnWake(t)
    \/ \E t \in Tasks : GnRead(t)
    \/ \E t \in Tasks : GnWrite(t)
    \/ \E t \in Tasks : GnUnlock(t)
    \/ \E t \in Tasks : SmGnReturn(t)
    \/ \E t \in Tasks : SmSkip(t)
    \/ \E t \in Tasks : SmPanic(t)
    \/ \E t \in Tasks : SmSendOk(t)
    \/ \E t \in Tasks : SmSendErr(t)
    \/ \E t \in Tasks : wait_for_success(t)

SpecConcurrent == InitConcurrent /\ [][NextConcurrent]_vars

\* the steps of task t inside get_nonce, up to the value being returned
GetNonceStep(t) ==
    GnLock(t) \/ GnWake(t) \/ GnRead(t) \/ GnWrite(t) \/ GnUnlock(t) \/ SmGnReturn(t)

\* the runtime polls every task that can go on inside get_nonce; nothing is assumed
\* about the node: a send or a confirmation may never be answered
SpecConcurrentFair ==
    InitConcurrent /\ [][NextConcurrent]_vars /\ \A t \in RelayTasks : WF_vars(GetNonceStep(t))

----------------------------------------------------------------------------
(* reconnect_with_exponential_back_off *)

MaxReconnects == 11

BackoffReset == 512

\* a loop that runs once more than asked
RangeHasNextInclusive(i, n) == i <= n

\* for _ in 0..reconnects: whether an iteration is left after `i` of them
RangeHasNext(i, n) == i < n

\* a backoff that is doubled without ever being reset
NextBackoffUnbounded(b) == b * 2

\* if initial_backoff == 512 { initial_backoff = 1 }; initial_backoff * 2
NextBackoff(b) == (IF b = BackoffReset THEN 1 ELSE b) * 2

\* head of the for loop; after it, return Err(..)
RcLoop ==
    /\ rc_pc = "loop"
    /\ IF RangeHasNext(attempts, reconnects)
          THEN /\ rc_pc' = "reconnect"
               /\ attempts' = attempts + 1
               /\ UNCHANGED rc_result
          ELSE /\ rc_pc' = "done"
               /\ rc_result' = "Err"
               /\ UNCHANGED attempts
    /\ UNCHANGED <<reconnects, initial_backoff, sleeps, outcomes>>
    /\ UNCHANGED <<nonceVars, pc, submitVars, encodeVars, restVars>>

\* chain.reconnect(counterparty).await is Ok(()): return Ok(())
RcReconnectOk ==
    /\ rc_pc = "reconnect"
    /\ outcomes' = Append(outcomes, TRUE)
    /\ rc_result' = "Ok"
    /\ rc_pc' = "done"
    /\ UNCHANGED <<reconnects, attempts, initial_backoff, sleeps>>
    /\ UNCHANGED <<nonceVars, pc, submitVars, encodeVars, restVars>>

\* a loop that does not sleep when no attempt is left
SleepsUnlessLast(i, n) == i < n

\* after the i-th call of n failed: nothing but `return Ok(())` leaves the loop body
\* in front of tokio::time::sleep
SleepsAfterFailure(i, n) == TRUE

\* chain.reconnect(counterparty).await is an error: update the backoff, start the sleep
RcReconnectErr ==
    /\ rc_pc = "reconnect"
    /\ outcomes' = Append(outcomes, FALSE)
    /\ initial_backoff' = NextBackoff(initial_backoff)
    /\ IF SleepsAfterFailure(attempts, reconnects)
          THEN /\ sleeps' = Append(sleeps, initial_backoff')
               /\ rc_pc' = "sleep"
          ELSE /\ rc_pc' = "loop"
               /\ UNCHANGED sleeps
    /\ UNCHANGED <<reconnects, attempts, rc_result>>
    /\ UNCHANGED <<nonceVars, pc, submitVars, encodeVars, restVars>>

\* tokio::time::sleep(..).await is over
RcSleepOver ==
    /\ rc_pc = "sleep"
    /\ rc_pc' = "loop"
    /\ UNCHANGED <<reconnects, attempts, initial_backoff, sleeps, outcomes, rc_result>>
    /\ UNCHANGED <<nonceVars, pc, submitVars, encodeVars, restVars>>

InitReconnect ==
    /\ rc_pc = "loop"
    /\ reconnects \in 0..MaxReconnects
    /\ attempts = 0
    /\ initial_backoff = 1
    /\ sleeps = <<>>
    /\ outcomes = <<>>
    /\ rc_result = "none"
    /\ NoTasks /\ NoSubmit /\ NoEncode /\ NoRest

NextReconnect == RcLoop \/ RcReconnectOk \/ RcReconnectErr \/ RcSleepOver

\* the runtime keeps polling the task, and chain.reconnect and the sleep resolve
SpecReconnect == InitReconnect /\ [][NextReconnect]_vars /\ WF_vars(NextReconnect)

----------------------------------------------------------------------------
(* SubstrateClient::reconnect, with another task drawing from the same allocator *)

MaxClientReconnects == 2
MaxClientDraws == 3

\* Option<NonceProvider>::None; a NonceProvider is named by its place in sc_heap
None == 0

\* SubstrateClient::new(host, config): a client on a fresh connection, built
\* without a nonce provider
SubstrateClientNew(host, config, conn) ==
    [nonce_provider |-> None, host |-> host, config |-> config, conn |-> conn]

\* let nonce_provider = self.nonce_provider.clone();
ScCall ==
    /\ sc_pc = "idle"
    /\ Len(sc_results) < MaxClientReconnects
    /\ sc_saved' = sc_client.nonce_provider
    /\ sc_pc' = "host"
    /\ UNCHANGED <<sc_heap, sc_orig, sc_client, sc_new, sc_log, sc_results, sc_onchain>>
    /\ UNCHANGED <<coreVars, runVars, setupVars, arbVars, cmVars, daVars>>

\* self.host.reconnect(counterparty).await is Ok
ScHostOk ==
    /\ sc_pc = "host"
    /\ sc_client' = [sc_client EXCEPT !.host = @ + 1]
    /\ sc_pc' = "new"
    /\ UNCHANGED <<sc_heap, sc_orig, sc_saved, sc_new, sc_log, sc_results, sc_onchain>>
    /\ UNCHANGED <<coreVars, runVars, setupVars, arbVars, cmVars, daVars>>

\* self.host.reconnect(counterparty).await? is an error: return it
ScHostErr ==
    /\ sc_pc = "host"
    /\ sc_results' = Append(sc_results, "Err")
    /\ sc_saved' = None
    /\ sc_pc' = "idle"
    /\ UNCHANGED <<sc_heap, sc_orig, sc_client, sc_new, sc_log, sc_onchain>>
    /\ UNCHANGED <<coreVars, runVars, setupVars, arbVars, cmVars, daVars>>

\* let mut new_client = SubstrateClient::new(host, self.config.clone()).await?
ScNewOk ==
    /\ sc_pc = "new"
    /\ sc_new' = SubstrateClientNew(sc_client.host, sc_client.config, sc_client.conn + 1)
    /\ sc_pc' = "restore"
    /\ UNCHANGED <<sc_heap, sc_orig, sc_client, sc_saved, sc_log, sc_results, sc_onchain>>
    /\ UNCHANGED <<coreVars, runVars, setupVars, arbVars, cmVars, daVars>>

\* a failed construction that leaves a client on a new connection, without provider
SelfAfterNewErrReplaced(self) == SubstrateClientNew(self.host, self.config, self.conn + 1)

\* self when SubstrateClient::new(..).await? is an error: the `?` returns in front of
\* `*self = new_client`
SelfAfterNewErr(self) == self

\* SubstrateClient::new(host, self.config.clone()).await? is an error: return it
ScNewErr ==
    /\ sc_pc = "new"
    /\ sc_client' = SelfAfterNewErr(sc_client)
    /\ sc_results' = Append(sc_results, "Err")
    /\ sc_saved' = None
    /\ sc_pc' = "idle"
    /\ UNCHANGED <<sc_heap, sc_orig, sc_new, sc_log, sc_onchain>>
    /\ UNCHANGED <<coreVars, runVars, setupVars, arbVars, cmVars, daVars>>

\* a rebuild that leaves the new client without the saved provider
RestoredNot(new_client, saved) == new_client

\* if let Some(nonce_provider) = nonce_provider { new_client.set_nonce_provider(..) }
Restored(new_client, saved) ==
    IF saved # None THEN [new_client EXCEPT !.nonce_provider = saved] ELSE new_client

ScRestore ==
    /\ sc_pc = "restore"
    /\ sc_new' = Restored(sc_new, sc_saved)
    /\ sc_pc' = "assign"
    /\ UNCHANGED <<sc_heap, sc_orig, sc_client, sc_saved, sc_log, sc_results, sc_onchain>>
    /\ UNCHANGED <<coreVars, runVars, setupVars, arbVars, cmVars, daVars>>

\* a rebuild that sets the counter to the signer's on-chain nonce
CounterReinitialized(value, onchain) == onchain

\* the counter of the provider put into the rebuilt client: reconnect neither calls
\* initialize_nonce nor writes the counter
CounterAfterReconnect(value, onchain) == value

\* *self = new_client; Ok(())
ScAssign ==
    /\ sc_pc = "assign"
    /\ sc_client' = sc_new
    /\ sc_heap' = [np \in DOMAIN sc_heap |->
                      IF np = sc_new.nonce_provider
                         THEN CounterAfterReconnect(sc_heap[np], sc_onchain)
                         ELSE sc_heap[np]]
    /\ sc_new' = <<>>
    /\ sc_saved' = None
    /\ sc_results' = Append(sc_results, "Ok")
    /\ sc_pc' = "idle"
    /\ UNCHANGED <<sc_orig, sc_log, sc_onchain>>
    /\ UNCHANGED <<coreVars, runVars, setupVars, arbVars, cmVars, daVars>>

\* the successful reconnects so far
Reconnected == Cardinality({r \in 1..Len(sc_results) : sc_results[r] = "Ok"})

\* get_nonce through provider `np`: the value, post-incremented; the log entry also
\* holds the reconnects made and the on-chain nonce when the value was drawn
ScGetNonce(by, np) ==
    /\ sc_heap' = [sc_heap EXCEPT ![np] = @ + 1]
    /\ sc_log' = Append(sc_log, [by |-> by, conn |-> sc_client.conn, value |-> sc_heap[np],
                                 reconnected |-> Reconnected, onchain |-> sc_onchain])

\* the task owning the client draws a nonce between two reconnects
ScOwnDraw ==
    /\ sc_pc = "idle"
    /\ Len(sc_log) < MaxClientDraws
    /\ sc_client.nonce_provider # None
    /\ ScGetNonce("own", sc_client.nonce_provider)
    /\ UNCHANGED <<sc_orig, sc_client, sc_pc, sc_saved, sc_new, sc_results, sc_onchain>>
    /\ UNCHANGED <<coreVars, runVars, setupVars, arbVars, cmVars, daVars>>

\* another task draws at any time, through its clone of the client
ScPeerDraw ==
    /\ sc_pc # "off"
    /\ Len(sc_log) < MaxClientDraws
    /\ sc_orig.nonce_provider # None
    /\ ScGetNonce("peer", sc_orig.nonce_provider)
    /\ UNCHANGED <<sc_orig, sc_client, sc_pc, sc_saved, sc_new, sc_results, sc_onchain>>
    /\ UNCHANGED <<coreVars, runVars, setupVars, arbVars, cmVars, daVars>>

\* the chain includes the transaction carrying the signer's next nonce
ScInclude ==
    /\ sc_pc # "off"
    /\ sc_orig.nonce_provider # None
    /\ sc_onchain < sc_heap[sc_orig.nonce_provider]
    /\ sc_onchain' = sc_onchain + 1
    /\ UNCHANGED <<sc_heap, sc_orig, sc_client, sc_pc, sc_saved, sc_new, sc_log, sc_results>>
    /\ UNCHANGED <<coreVars, runVars, setupVars, arbVars, cmVars, daVars>>

\* a client whose nonce provider was installed (or not) after construction, its
\* counter read from the chain by initialize_nonce
InitClient ==
    /\ \E np \in {None, 1}, start \in {0, 5}, config \in {"hyperbridge", "parachain"} :
          /\ sc_heap = IF np = None THEN <<>> ELSE <<start>>
          /\ sc_orig = [nonce_provider |-> np, start |-> start, config |-> config]
          /\ sc_client = [nonce_provider |-> np, host |-> 0, config |-> config, conn |-> 0]
          /\ sc_onchain = start
    /\ sc_pc = "idle"
    /\ sc_saved = None
    /\ sc_new = <<>>
    /\ sc_log = <<>>
    /\ sc_results = <<>>
    /\ NoTasks /\ NoSubmit /\ NoReconnect /\ NoEncode /\ NoRun /\ NoSetup /\ NoArb
    /\ NoClientMap /\ NoDeposit

NextClient ==
    \/ ScCall
    \/ ScHostOk
    \/ ScHostErr
    \/ ScNewOk
    \/ ScNewErr
    \/ ScRestore
    \/ ScAssign
    \/ ScOwnDraw
    \/ ScPeerDraw
    \/ ScInclude

SpecClient == InitClient /\ [][NextClient]_vars

----------------------------------------------------------------------------
(* Cli::run: building the clients, spawning the relay tasks, awaiting them *)

NumSpokes == 2

\* the StateMachine keys of config.chains
Spokes == 1..NumSpokes

Without(map, key) == [k \in DOMAIN map \ {key} |-> map[k]]

RunFrame == UNCHANGED <<coreVars, clientVars, setupVars, arbVars, cmVars, daVars>>

\* an early return through `?`
RunFails ==
    /\ run_result' = "Err"
    /\ run_pc' = "done"

\* reading the config, TransactionPayment::initialize, the hub client,
\* hyperbridge.initialize_nonce() and set_nonce_provider
RunStartOk ==
    /\ run_pc = "start"
    /\ run_heap' = run_heap + 1
    /\ run_hub' = run_heap + 1
    /\ run_pc' = "map"
    /\ UNCHANGED <<run_cfg, run_map, run_nps, run_clients, processes, run_result>>
    /\ RunFrame

RunStartErr ==
    /\ run_pc = "start"
    /\ RunFails
    /\ UNCHANGED <<run_cfg, run_heap, run_hub, run_map, run_nps, run_clients, processes>>
    /\ RunFrame

\* create_client_map: one client per configured chain, each given a NonceProvider
\* of its own by initialize_nonce; returns (clients, nonce_providers)
create_client_map(heap) ==
    [clients |-> [s \in Spokes |-> heap + s],
     nonce_providers |-> [s \in Spokes |-> heap + s],
     heap |-> heap + NumSpokes]

\* let (client_map, nonce_providers) = create_client_map(..).await?
RunClientMapOk ==
    /\ run_pc = "map"
    /\ run_map' = create_client_map(run_heap).clients
    /\ run_nps' = create_client_map(run_heap).nonce_providers
    /\ run_heap' = create_client_map(run_heap).heap
    /\ run_pc' = IF run_cfg.setup THEN "setup" ELSE "consensus"
    /\ UNCHANGED <<run_cfg, run_hub, run_clients, processes, run_result>>
    /\ RunFrame

RunClientMapErr ==
    /\ run_pc = "map"
    /\ RunFails
    /\ UNCHANGED <<run_cfg, run_heap, run_hub, run_map, run_nps, run_clients, processes>>
    /\ RunFrame

\* a seeding whose error is only logged
AfterSetupIgnored(ok) == "consensus"

\* initialize_consensus_clients(..).await?: on to the streams, or out of Cli::run
AfterSetup(ok) == IF ok THEN "consensus" ELSE "done"

\* initialize_consensus_clients(..).await? returned Ok
RunSetupOk ==
    /\ run_pc = "setup"
    /\ run_pc' = AfterSetup(TRUE)
    /\ UNCHANGED <<run_cfg, run_heap, run_hub, run_map, run_nps, run_clients, processes,
                   run_result>>
    /\ RunFrame

RunSetupErr ==
    /\ run_pc = "setup"
    /\ run_result' = "Err"
    /\ run_pc' = AfterSetup(FALSE)
    /\ UNCHANGED <<run_cfg, run_heap, run_hub, run_map, run_nps, run_clients, processes>>
    /\ RunFrame

Process(kind, spoke, hub_np, client_np) ==
    [kind |-> kind, spoke |-> spoke, hub_np |-> hub_np, client_np |-> client_np,
     state |-> "running"]

\* processes.push(tokio::spawn(consensus::relay(hyperbridge.clone(), client, ..)))
RunSpawnConsensus ==
    /\ run_pc = "consensus"
    /\ run_cfg.consensus
    /\ \E s \in DOMAIN run_map :
          /\ processes' = Append(processes, Process("consensus", s, run_hub, run_map[s]))
          /\ run_map' = Without(run_map, s)
    /\ UNCHANGED <<run_cfg, run_heap, run_hub, run_nps, run_clients, run_pc, run_result>>
    /\ RunFrame

\* the consensus streams are up, or relayer.consensus is off
RunConsensusSpawned ==
    /\ run_pc = "consensus"
    /\ ~run_cfg.consensus \/ DOMAIN run_map = {}
    /\ run_pc' = IF run_cfg.messaging THEN "messaging" ELSE "join"
    /\ UNCHANGED <<run_cfg, run_heap, run_hub, run_map, run_nps, run_clients, processes,
                   run_result>>
    /\ RunFrame

\* let (clients, _) = create_client_map(config.clone(), &hyperbridge).await?
RunMessagingMapOk ==
    /\ run_pc = "messaging"
    /\ run_clients' = create_client_map(run_heap).clients
    /\ run_heap' = create_client_map(run_heap).heap
    /\ run_pc' = "spawn_messaging"
    /\ UNCHANGED <<run_cfg, run_hub, run_map, run_nps, processes, run_result>>
    /\ RunFrame

RunMessagingMapErr ==
    /\ run_pc = "messaging"
    /\ RunFails
    /\ UNCHANGED <<run_cfg, run_heap, run_hub, run_map, run_nps, run_clients, processes>>
    /\ RunFrame

\* a messaging client that keeps the provider its own create_client_map gave it
MessagingProviderOwn(s) == run_clients[s]

\* client.set_nonce_provider(nonce_providers.get(&state_machine).cloned()..)
MessagingProvider(s) == run_nps[s]

\* a hub client of its own with hyperbridge_nonce_provider, the spoke client with
\* the provider of the first client map, then tokio::spawn(messaging::relay(..))
RunSpawnMessaging ==
    /\ run_pc = "spawn_messaging"
    /\ \E s \in DOMAIN run_clients :
          IF s \in DOMAIN run_nps
             THEN /\ processes' =
                        Append(processes, Process("messaging", s, run_hub, MessagingProvider(s)))
                  /\ run_clients' = Without(run_clients, s)
                  /\ UNCHANGED <<run_pc, run_result>>
             ELSE /\ RunFails
                  /\ UNCHANGED <<processes, run_clients>>
    /\ UNCHANGED <<run_cfg, run_heap, run_hub, run_map, run_nps>>
    /\ RunFrame

\* hyperbridge_config.clone().into_client().await? is an error
RunSpawnMessagingErr ==
    /\ run_pc = "spawn_messaging"
    /\ DOMAIN run_clients # {}
    /\ RunFails
    /\ UNCHANGED <<run_cfg, run_heap, run_hub, run_map, run_nps, run_clients, processes>>
    /\ RunFrame

RunMessagingSpawned ==
    /\ run_pc = "spawn_messaging"
    /\ DOMAIN run_clients = {}
    /\ run_pc' = "join"
    /\ UNCHANGED <<run_cfg, run_heap, run_hub, run_map, run_nps, run_clients, processes,
                   run_result>>
    /\ RunFrame

\* join_all resolves once every JoinHandle has resolved
JoinAllReady == \A i \in 1..Len(processes) : processes[i].state # "running"

\* let _ = futures::future::join_all(processes).await; Ok(())
RunJoin ==
    /\ run_pc = "join"
    /\ JoinAllReady
    /\ run_result' = "Ok"
    /\ run_pc' = "done"
    /\ UNCHANGED <<run_cfg, run_heap, run_hub, run_map, run_nps, run_clients, processes>>
    /\ RunFrame

\* a spawned relay task ends: it returns Ok or an error, or it panics
TaskEnds ==
    /\ \E i \in 1..Len(processes), how \in {"Ok", "Err", "panic"} :
          /\ processes[i].state = "running"
          /\ processes' = [processes EXCEPT ![i].state = how]
    /\ UNCHANGED <<run_cfg, run_heap, run_hub, run_map, run_nps, run_clients, run_pc,
                   run_result>>
    /\ RunFrame

InitRun ==
    /\ run_pc = "start"
    /\ run_cfg \in [consensus : BOOLEAN, messaging : BOOLEAN, setup : BOOLEAN]
    /\ run_heap = 0
    /\ run_hub = None
    /\ run_map = <<>>
    /\ run_nps = <<>>
    /\ run_clients = <<>>
    /\ processes = <<>>
    /\ run_result = "none"
    /\ NoTasks /\ NoSubmit /\ NoReconnect /\ NoEncode /\ NoClient /\ NoSetup /\ NoArb
    /\ NoClientMap /\ NoDeposit

\* the steps of Cli::run itself
RunStep ==
    \/ RunStartOk
    \/ RunStartErr
    \/ RunClientMapOk
    \/ RunClientMapErr
    \/ RunSetupOk
    \/ RunSetupErr
    \/ RunSpawnConsensus
    \/ RunConsensusSpawned
    \/ RunMessagingMapOk
    \/ RunMessagingMapErr
    \/ RunSpawnMessaging
    \/ RunSpawnMessagingErr
    \/ RunMessagingSpawned
    \/ RunJoin

NextRun == RunStep \/ TaskEnds

\* the runtime keeps polling Cli::run; a relay task may run forever
SpecRun == InitRun /\ [][NextRun]_vars /\ WF_vars(RunStep)

----------------------------------------------------------------------------
(* initialize_consensus_clients *)

SetupFrame == UNCHANGED <<coreVars, clientVars, runVars, arbVars, cmVars, daVars>>

\* an early return through `?`
SetupFails(why) ==
    /\ st_result' = why
    /\ st_pc' = "done"

\* a spoke installs the hub's consensus state unless it already holds one: it
\* rejects the duplicate and set_initial_consensus_state returns the error
SpokeAccepts(s) == st_installed[s] = 0

\* if setup_eth { let initial_state = hyperbridge.get_initial_consensus_state().await?.ok_or_else(..)?
StFetchOk ==
    /\ st_pc = "start"
    /\ st_flags.setup_eth
    /\ st_todo' = Spokes
    /\ st_pc' = "eth"
    /\ UNCHANGED <<st_flags, st_installed, st_hub, st_result, st_has, st_log>>
    /\ SetupFrame

StFetchErr ==
    /\ st_pc = "start"
    /\ st_flags.setup_eth
    /\ SetupFails("Err_fetch")
    /\ UNCHANGED <<st_flags, st_installed, st_hub, st_todo, st_has, st_log>>
    /\ SetupFrame

StSkipEth ==
    /\ st_pc = "start"
    /\ ~st_flags.setup_eth
    /\ st_pc' = "para"
    /\ UNCHANGED <<st_flags, st_installed, st_hub, st_todo, st_result, st_has, st_log>>
    /\ SetupFrame

\* chain.set_initial_consensus_state(initial_state.clone()).await is Ok
StInstallOk ==
    /\ st_pc = "eth"
    /\ \E s \in st_todo :
          /\ SpokeAccepts(s)
          /\ st_installed' = [st_installed EXCEPT ![s] = @ + 1]
          /\ st_log' = Append(st_log, [to |-> "spoke", spoke |-> s])
          /\ st_todo' = st_todo \ {s}
    /\ UNCHANGED <<st_flags, st_hub, st_pc, st_result, st_has>>
    /\ SetupFrame

\* .. is the spoke's rejection of a duplicate: `?` returns it
StInstallRejected ==
    /\ st_pc = "eth"
    /\ \E s \in st_todo : ~SpokeAccepts(s)
    /\ SetupFails("Err_rejected")
    /\ UNCHANGED <<st_flags, st_installed, st_hub, st_todo, st_has, st_log>>
    /\ SetupFrame

\* .. is a transport error: `?` returns it
StInstallErr ==
    /\ st_pc = "eth"
    /\ st_todo # {}
    /\ SetupFails("Err_io")
    /\ UNCHANGED <<st_flags, st_installed, st_hub, st_todo, st_has, st_log>>
    /\ SetupFrame

StEthDone ==
    /\ st_pc = "eth"
    /\ st_todo = {}
    /\ st_pc' = "para"
    /\ UNCHANGED <<st_flags, st_installed, st_hub, st_todo, st_result, st_has, st_log>>
    /\ SetupFrame

\* if setup_para { for (state_machine, client) in chains { .. } } Ok(())
StParaStart ==
    /\ st_pc = "para"
    /\ IF st_flags.setup_para
          THEN /\ st_todo' = Spokes
               /\ st_pc' = "para_loop"
               /\ UNCHANGED st_result
          ELSE /\ st_result' = "Ok"
               /\ st_pc' = "done"
               /\ UNCHANGED st_todo
    /\ UNCHANGED <<st_flags, st_installed, st_hub, st_has, st_log>>
    /\ SetupFrame

\* an installation made whatever the spoke answered
HubInstallsAlways(s) == TRUE

\* if let Some(consensus_state) = client.get_initial_consensus_state().await?
HubInstalls(s) == st_has[s]

\* client.get_initial_consensus_state().await? is Some(state) and the hub takes it
StParaInstall ==
    /\ st_pc = "para_loop"
    /\ \E s \in st_todo :
          /\ HubInstalls(s)
          /\ st_hub' = st_hub \cup {s}
          /\ st_log' = Append(st_log, [to |-> "hub", spoke |-> s])
          /\ st_todo' = st_todo \ {s}
    /\ UNCHANGED <<st_flags, st_installed, st_pc, st_result, st_has>>
    /\ SetupFrame

\* .. is None: nothing to install for this spoke
StParaNone ==
    /\ st_pc = "para_loop"
    /\ \E s \in st_todo :
          /\ ~HubInstalls(s)
          /\ st_todo' = st_todo \ {s}
    /\ UNCHANGED <<st_flags, st_installed, st_hub, st_pc, st_result, st_has, st_log>>
    /\ SetupFrame

\* either call is an error: `?` returns it
StParaErr ==
    /\ st_pc = "para_loop"
    /\ st_todo # {}
    /\ SetupFails("Err_io")
    /\ UNCHANGED <<st_flags, st_installed, st_hub, st_todo, st_has, st_log>>
    /\ SetupFrame

StParaDone ==
    /\ st_pc = "para_loop"
    /\ st_todo = {}
    /\ st_result' = "Ok"
    /\ st_pc' = "done"
    /\ UNCHANGED <<st_flags, st_installed, st_hub, st_todo, st_has, st_log>>
    /\ SetupFrame

\* a first run, or a re-run finding the state already on some spokes
InitSetup ==
    /\ st_pc = "start"
    /\ st_flags \in [setup_eth : BOOLEAN, setup_para : BOOLEAN]
    /\ st_installed \in [Spokes -> {0, 1}]
    /\ st_hub = {}
    /\ st_has \in [Spokes -> BOOLEAN]
    /\ st_log = <<>>
    /\ st_todo = {}
    /\ st_result = "none"
    /\ NoTasks /\ NoSubmit /\ NoReconnect /\ NoEncode /\ NoClient /\ NoRun /\ NoArb
    /\ NoClientMap /\ NoDeposit

NextSetup ==
    \/ StFetchOk
    \/ StFetchErr
    \/ StSkipEth
    \/ StInstallOk
    \/ StInstallRejected
    \/ StInstallErr
    \/ StEthDone
    \/ StParaStart
    \/ StParaInstall
    \/ StParaNone
    \/ StParaErr
    \/ StParaDone

SpecSetup == InitSetup /\ [][NextSetup]_vars

----------------------------------------------------------------------------
(* ArbHost::latest_event and ArbHost::fetch_arbitrum_payload *)

MaxEvents == 3
MaxAdvance == 2

\* L1 block numbers and rollup node numbers of the NodeCreated events tried
Blocks == 1..2
NodeNums == 1..3

\* event.assertion.after_state of the id-th event the contract emitted: two hashes,
\* two numbers and a machine status, one MachineStatus has no variant for in the
\* third event
AfterState(id) ==
    [global_state |-> [bytes_32_vals |-> <<10 + id, 20 + id>>,
                       u_64_vals |-> <<30 + id, 40 + id>>],
     machine_status |-> IF id = 3 THEN "unknown" ELSE "Finished"]

\* NodeCreatedFilter; `block` is the L1 block whose log holds the event
NodeCreated(id, node_num, block) ==
    [id |-> id, node_num |-> node_num, block |-> block,
     after_state |-> AfterState(id), inbox_max_count |-> 50 + id]

\* Option<NodeCreatedFilter>: None, Some(event)
NoEvent == <<>>
Some(event) == <<event>>

ArbFrame == UNCHANGED <<coreVars, clientVars, runVars, setupVars, cmVars, daVars>>

\* .from_block(from).to_block(to): the events of the log in the inclusive range
InRange == {i \in 1..Len(arb_log) : arb_range.from <= arb_log[i].block
                                     /\ arb_log[i].block <= arb_range.to}

\* the orders in which the elements of `seq` picked by `S` can be listed
Orderings(seq, S) ==
    {[i \in 1..Cardinality(S) |-> seq[p[i]]] :
        p \in {q \in [1..Cardinality(S) -> S] : \A i, j \in 1..Cardinality(S) :
                                                    i # j => q[i] # q[j]}}

SortedByNodeNum(events) ==
    \A i \in 1..(Len(events) - 1) : events[i].node_num <= events[i + 1].node_num

\* contract.event::<NodeCreatedFilter>()..query().await? is Ok: the node answers
\* with the events of the range, in an order of its choosing
AeQueryOk ==
    /\ arb_pc = "query"
    /\ arb_events' \in Orderings(arb_log, InRange)
    /\ arb_pc' = "sort"
    /\ UNCHANGED <<arb_log, arb_range, arb_result, arb_head, arb_at, arb_proof, arb_header,
                   arb_payload>>
    /\ ArbFrame

\* .. is an error: `?` returns it
AeQueryErr ==
    /\ arb_pc = "query"
    /\ arb_result' = [status |-> "Err", value |-> NoEvent]
    /\ arb_pc' = "latest_done"
    /\ UNCHANGED <<arb_log, arb_range, arb_events, arb_head, arb_at, arb_proof, arb_header,
                   arb_payload>>
    /\ ArbFrame

\* events.sort_unstable_by(|a, b| a.node_num.cmp(&b.node_num)): ascending by
\* node_num, events of equal node_num in any order
AeSort ==
    /\ arb_pc = "sort"
    /\ arb_events' \in {s \in Orderings(arb_events, 1..Len(arb_events)) : SortedByNodeNum(s)}
    /\ arb_pc' = "last"
    /\ UNCHANGED <<arb_log, arb_range, arb_result, arb_head, arb_at, arb_proof, arb_header,
                   arb_payload>>
    /\ ArbFrame

\* taking the first element of the sorted events
LastIsFirst(events) ==
    IF events = <<>> THEN [status |-> "Ok", value |-> NoEvent]
    ELSE [status |-> "Ok", value |-> Some(events[1])]

\* indexing the last element without looking at the length
LastUnwrapped(events) ==
    IF events = <<>> THEN [status |-> "panic", value |-> NoEvent]
    ELSE [status |-> "Ok", value |-> Some(events[Len(events)])]

\* Ok(events.last().cloned())
Last(events) ==
    IF events = <<>> THEN [status |-> "Ok", value |-> NoEvent]
    ELSE [status |-> "Ok", value |-> Some(events[Len(events)])]

AeLast ==
    /\ arb_pc = "last"
    /\ arb_result' = Last(arb_events)
    /\ arb_pc' = "latest_done"
    /\ UNCHANGED <<arb_log, arb_range, arb_events, arb_head, arb_at, arb_proof, arb_header,
                   arb_payload>>
    /\ ArbFrame

\* the L1 chain grows while the payload is assembled
L1Advance ==
    /\ arb_pc \in {"get_proof", "header", "build"}
    /\ arb_head < 2 + MaxAdvance
    /\ arb_head' = arb_head + 1
    /\ UNCHANGED <<arb_pc, arb_log, arb_range, arb_events, arb_result, arb_at, arb_proof,
                   arb_header, arb_payload>>
    /\ ArbFrame

\* fetch_arbitrum_payload(at, event) is called with the event latest_event found
ApCall ==
    /\ arb_pc = "latest_done"
    /\ arb_result.status = "Ok"
    /\ arb_result.value # NoEvent
    /\ arb_at' \in Blocks
    /\ arb_pc' = "get_proof"
    /\ UNCHANGED <<arb_log, arb_range, arb_events, arb_result, arb_head, arb_proof,
                   arb_header, arb_payload>>
    /\ ArbFrame

\* the `event` argument
Event == arb_result.value[1]

\* a proof request that names no block: the node answers at its latest block
ProofBlockLatest(at, head) == head

\* Some(at.into()): the block the proof is asked at
ProofBlock(at, head) == at

\* derive_map_key(node_num, NODES_SLOT)
StateHashKey(event) == <<event.node_num, "NODES_SLOT">>

\* get_proof(self.rollup_core, vec![state_hash_key], Some(at.into()))
GetProofRequest(event, at, head) ==
    [address |-> "rollup_core", keys |-> <<StateHashKey(event)>>,
     block |-> ProofBlock(at, head)]

\* eth_getProof(address, keys, block): the account proof and the storage proofs of
\* one response, all at `block`; the node may answer without the storage proof
EIP1186ProofResponse(block, keys) ==
    [account_proof |-> [block |-> block],
     storage_proof |-> [i \in 1..Len(keys) |-> [key |-> keys[i], block |-> block]]]

NoProof == [request |-> <<>>, response |-> <<>>]

ApGetProofOk ==
    /\ arb_pc = "get_proof"
    /\ LET request == GetProofRequest(Event, arb_at, arb_head)
       IN  \E keys \in {request.keys, <<>>} :
              arb_proof' = [request |-> request,
                            response |-> EIP1186ProofResponse(request.block, keys)]
    /\ arb_pc' = "header"
    /\ UNCHANGED <<arb_log, arb_range, arb_events, arb_result, arb_head, arb_at, arb_header,
                   arb_payload>>
    /\ ArbFrame

PayloadErr(why) ==
    /\ arb_payload' = [status |-> "Err", why |-> why]
    /\ arb_pc' = "done"

ApGetProofErr ==
    /\ arb_pc = "get_proof"
    /\ PayloadErr("get_proof")
    /\ UNCHANGED <<arb_log, arb_range, arb_events, arb_result, arb_head, arb_at, arb_proof,
                   arb_header>>
    /\ ArbFrame

\* event.assertion.after_state.global_state.bytes_32_vals[0]
ArbBlockHash(event) == event.after_state.global_state.bytes_32_vals[1]

NoHeader == [status |-> "none", hash |-> 0]

\* Ok(arb_header): the CodecHeader of the block get_block found under `hash`
CodecHeader(hash) == [status |-> "found", hash |-> hash]

\* self.fetch_header(arb_block_hash).await? is Ok
ApHeaderOk ==
    /\ arb_pc = "header"
    /\ arb_header' = CodecHeader(ArbBlockHash(Event))
    /\ arb_pc' = "build"
    /\ UNCHANGED <<arb_log, arb_range, arb_events, arb_result, arb_head, arb_at, arb_proof,
                   arb_payload>>
    /\ ArbFrame

\* get_block is Ok(None): .ok_or_else(|| anyhow!("Header not found for {:?}", block))?
ApHeaderNotFound ==
    /\ arb_pc = "header"
    /\ arb_header' = [status |-> "missing", hash |-> ArbBlockHash(Event)]
    /\ PayloadErr("header_not_found")
    /\ UNCHANGED <<arb_log, arb_range, arb_events, arb_result, arb_head, arb_at, arb_proof>>
    /\ ArbFrame

\* get_block is an error: `?` returns it
ApHeaderErr ==
    /\ arb_pc = "header"
    /\ arb_header' = [status |-> "failed", hash |-> ArbBlockHash(Event)]
    /\ PayloadErr("get_block")
    /\ UNCHANGED <<arb_log, arb_range, arb_events, arb_result, arb_head, arb_at, arb_proof>>
    /\ ArbFrame

\* a global state with the two hashes exchanged
GlobalStateSwapped(event) ==
    [block_hash |-> event.after_state.global_state.bytes_32_vals[2],
     send_root |-> event.after_state.global_state.bytes_32_vals[1],
     inbox_position |-> event.after_state.global_state.u_64_vals[1],
     position_in_message |-> event.after_state.global_state.u_64_vals[2]]

\* RustGlobalState { block_hash: arb_block_hash, send_root: ..bytes_32_vals[1],
\* inbox_position: ..u_64_vals[0], position_in_message: ..u_64_vals[1] }
GlobalState(event) ==
    [block_hash |-> ArbBlockHash(event),
     send_root |-> event.after_state.global_state.bytes_32_vals[2],
     inbox_position |-> event.after_state.global_state.u_64_vals[1],
     position_in_message |-> event.after_state.global_state.u_64_vals[2]]

\* status.try_into(): the statuses MachineStatus has a variant for
MachineStatusConverts(status) == status # "unknown"

\* a payload built with an empty storage proof when the response holds none
StorageProofOrDefault(response) ==
    IF response.storage_proof = <<>>
        THEN [status |-> "Ok", value |-> [key |-> <<>>, block |-> 0]]
        ELSE [status |-> "Ok", value |-> response.storage_proof[1]]

\* proof.storage_proof.get(0).cloned().ok_or_else(|| anyhow!("Storage proof not found .."))
StorageProof(response) ==
    IF response.storage_proof = <<>>
        THEN [status |-> "Err", value |-> [key |-> <<>>, block |-> 0]]
        ELSE [status |-> "Ok", value |-> response.storage_proof[1]]

\* let payload = ArbitrumPayloadProof { .. }; Ok(payload)
ApBuildOk ==
    /\ arb_pc = "build"
    /\ MachineStatusConverts(Event.after_state.machine_status)
    /\ StorageProof(arb_proof.response).status = "Ok"
    /\ arb_payload' = [status |-> "Ok",
                       arbitrum_header |-> arb_header,
                       global_state |-> GlobalState(Event),
                       machine_status |-> Event.after_state.machine_status,
                       inbox_max_count |-> Event.inbox_max_count,
                       node_number |-> Event.node_num,
                       storage_proof |-> StorageProof(arb_proof.response).value,
                       contract_proof |-> arb_proof.response.account_proof]
    /\ arb_pc' = "done"
    /\ UNCHANGED <<arb_log, arb_range, arb_events, arb_result, arb_head, arb_at, arb_proof,
                   arb_header>>
    /\ ArbFrame

\* status.try_into().map_err(..)? is an error
ApMachineStatusErr ==
    /\ arb_pc = "build"
    /\ ~MachineStatusConverts(Event.after_state.machine_status)
    /\ PayloadErr("machine_status")
    /\ UNCHANGED <<arb_log, arb_range, arb_events, arb_result, arb_head, arb_at, arb_proof,
                   arb_header>>
    /\ ArbFrame

\* the response holds no storage proof: ok_or_else(..)? is an error
ApStorageProofErr ==
    /\ arb_pc = "build"
    /\ MachineStatusConverts(Event.after_state.machine_status)
    /\ StorageProof(arb_proof.response).status = "Err"
    /\ PayloadErr("storage_proof_not_found")
    /\ UNCHANGED <<arb_log, arb_range, arb_events, arb_result, arb_head, arb_at, arb_proof,
                   arb_header>>
    /\ ArbFrame

NoPayload == [status |-> "none", why |-> "none"]

InitArb ==
    /\ arb_pc = "query"
    /\ \E n \in 0..MaxEvents :
       \E nums \in [1..n -> NodeNums], blocks \in [1..n -> Blocks] :
          arb_log = [i \in 1..n |-> NodeCreated(i, nums[i], blocks[i])]
    /\ arb_range \in [from : Blocks, to : Blocks]
    /\ arb_events = <<>>
    /\ arb_result = [status |-> "none", value |-> NoEvent]
    /\ arb_head = 2
    /\ arb_at = 0
    /\ arb_proof = NoProof
    /\ arb_header = NoHeader
    /\ arb_payload = NoPayload
    /\ NoTasks /\ NoSubmit /\ NoReconnect /\ NoEncode /\ NoClient /\ NoRun /\ NoSetup
    /\ NoClientMap /\ NoDeposit

NextArb ==
    \/ AeQueryOk
    \/ AeQueryErr
    \/ AeSort
    \/ AeLast
    \/ L1Advance
    \/ ApCall
    \/ ApGetProofOk
    \/ ApGetProofErr
    \/ ApHeaderOk
    \/ ApHeaderNotFound
    \/ ApHeaderErr
    \/ ApBuildOk
    \/ ApMachineStatusErr
    \/ ApStorageProofErr

SpecArb == InitArb /\ [][NextArb]_vars

----------------------------------------------------------------------------
(* create_client_map and the L2-host registry of the execution-layer client *)

MaxChains == 3

\* the StateMachine keys of config.chains
StateMachines == {"ExecutionLayer", "Arbitrum", "Base", "Optimism"}

\* the AnyClient variants a chain's config can build
AnyClients == {"Ethereum", "Arbitrum", "Base", "Optimism"}

\* config.into_client(hyperbridge): a client of the config's variant, with a host
\* of its own; the host is named like the client
AnyClient(id, variant) == [id |-> id, variant |-> variant]

CmFrame == UNCHANGED <<coreVars, clientVars, runVars, setupVars, arbVars, daVars>>

\* a grouping that only knows Arbitrum
L2HostOfArbOnly(client) ==
    IF client.variant = "Arbitrum" THEN <<[tag |-> "Arb", host |-> client.id]>> ELSE <<>>

\* match &client { Arbitrum => L2Host::Arb(host), Base => L2Host::Base(host),
\* Optimism => L2Host::Op(host), _ => {} }: what the iteration pushes to l2_hosts
L2HostOf(client) ==
    CASE client.variant = "Arbitrum" -> <<[tag |-> "Arb", host |-> client.id]>>
      [] client.variant = "Base" -> <<[tag |-> "Base", host |-> client.id]>>
      [] client.variant = "Optimism" -> <<[tag |-> "Op", host |-> client.id]>>
      [] OTHER -> <<>>

\* HashMap::insert
Insert(map, key, value) ==
    [k \in DOMAIN map \cup {key} |-> IF k = key THEN value ELSE map[k]]

\* create_client_map(config.clone(), &hyperbridge) is called: by Cli::run at start,
\* and again when relayer.messaging is set
CmBegin ==
    /\ cm_pc \in {"map", "messaging_map"}
    /\ cm_call' = cm_call + 1
    /\ cm_todo' = DOMAIN cm_cfg.chains
    /\ cm_clients' = <<>>
    /\ cm_l2_hosts' = <<>>
    /\ cm_pc' = "loop"
    /\ UNCHANGED <<cm_cfg, cm_next, cm_maps, cm_tasks, cm_log, cm_result>>
    /\ CmFrame

\* one iteration of `for (state_machine, config) in chains`, in the order the
\* HashMap yields them
CmIterate ==
    /\ cm_pc = "loop"
    /\ \E state_machine \in cm_todo :
          LET client == AnyClient(cm_next + 1, cm_cfg.chains[state_machine])
          IN  /\ cm_l2_hosts' = cm_l2_hosts \o L2HostOf(client)
              /\ cm_clients' = Insert(cm_clients, state_machine, client)
              /\ cm_todo' = cm_todo \ {state_machine}
    /\ cm_next' = cm_next + 1
    /\ UNCHANGED <<cm_pc, cm_cfg, cm_call, cm_maps, cm_tasks, cm_log, cm_result>>
    /\ CmFrame

\* into_client or initialize_nonce is an error: `?` returns it, from
\* create_client_map and from Cli::run
CmIterateErr ==
    /\ cm_pc = "loop"
    /\ cm_todo # {}
    /\ cm_result' = "Err"
    /\ cm_pc' = "done"
    /\ UNCHANGED <<cm_cfg, cm_call, cm_todo, cm_clients, cm_l2_hosts, cm_next, cm_maps,
                   cm_tasks, cm_log>>
    /\ CmFrame

\* client.host.set_l2_hosts(l2_hosts), as logged: which client, which hosts, in
\* which call, whether relay tasks had been spawned, whether the client itself was
\* already in one
SetL2Hosts(client, l2_hosts) ==
    [client |-> client.id, hosts |-> l2_hosts, call |-> cm_call,
     started |-> cm_tasks # {}, moved |-> client.id \in cm_tasks]

\* after the loop: clients.get_mut(&ExecutionLayer), set_l2_hosts on the Ethereum
\* client found there (unreachable!() for another variant), Ok((clients, ..))
CmFinish ==
    /\ cm_pc = "loop"
    /\ cm_todo = {}
    /\ IF "ExecutionLayer" \in DOMAIN cm_clients
             /\ cm_clients["ExecutionLayer"].variant # "Ethereum"
          THEN /\ cm_result' = "panic"
               /\ cm_pc' = "done"
               /\ UNCHANGED <<cm_maps, cm_log>>
          ELSE /\ cm_log' = IF "ExecutionLayer" \in DOMAIN cm_clients
                               THEN Append(cm_log,
                                           SetL2Hosts(cm_clients["ExecutionLayer"], cm_l2_hosts))
                               ELSE cm_log
               /\ cm_maps' = Append(cm_maps, cm_clients)
               /\ cm_pc' = IF cm_call = 1 THEN "consensus" ELSE "spawn_messaging"
               /\ UNCHANGED cm_result
    /\ UNCHANGED <<cm_cfg, cm_call, cm_todo, cm_clients, cm_l2_hosts, cm_next, cm_tasks>>
    /\ CmFrame

\* if relayer.consensus { for (_, client) in client_map { spawn(consensus::relay) } }
CmSpawnConsensus ==
    /\ cm_pc = "consensus"
    /\ cm_tasks' = IF cm_cfg.consensus
                      THEN cm_tasks \cup {cm_clients[k].id : k \in DOMAIN cm_clients}
                      ELSE cm_tasks
    /\ cm_clients' = <<>>
    /\ cm_pc' = IF cm_cfg.messaging THEN "messaging_map" ELSE "join"
    /\ UNCHANGED <<cm_cfg, cm_call, cm_todo, cm_l2_hosts, cm_next, cm_maps, cm_log, cm_result>>
    /\ CmFrame

\* one iteration of `for (state_machine, mut client) in clients`: the client is
\* moved into tokio::spawn(messaging::relay(..))
CmSpawnMessaging ==
    /\ cm_pc = "spawn_messaging"
    /\ \E state_machine \in DOMAIN cm_clients :
          /\ cm_tasks' = cm_tasks \cup {cm_clients[state_machine].id}
          /\ cm_clients' = [k \in DOMAIN cm_clients \ {state_machine} |-> cm_clients[k]]
    /\ UNCHANGED <<cm_pc, cm_cfg, cm_call, cm_todo, cm_l2_hosts, cm_next, cm_maps, cm_log,
                   cm_result>>
    /\ CmFrame

\* the hub client of the iteration cannot be built: `?` returns the error
CmSpawnMessagingErr ==
    /\ cm_pc = "spawn_messaging"
    /\ DOMAIN cm_clients # {}
    /\ cm_result' = "Err"
    /\ cm_pc' = "done"
    /\ UNCHANGED <<cm_cfg, cm_call, cm_todo, cm_clients, cm_l2_hosts, cm_next, cm_maps,
                   cm_tasks, cm_log>>
    /\ CmFrame

\* every messaging task is spawned: Cli::run awaits the tasks
CmMessagingSpawned ==
    /\ cm_pc = "spawn_messaging"
    /\ DOMAIN cm_clients = {}
    /\ cm_pc' = "join"
    /\ UNCHANGED <<cm_cfg, cm_call, cm_todo, cm_clients, cm_l2_hosts, cm_next, cm_maps,
                   cm_tasks, cm_log, cm_result>>
    /\ CmFrame

\* up to MaxChains chains, any client variant under any key
InitClientMap ==
    /\ cm_pc = "map"
    /\ \E consensus \in BOOLEAN, messaging \in BOOLEAN :
       \E keys \in {K \in SUBSET StateMachines : Cardinality(K) <= MaxChains} :
       \E chains \in [keys -> AnyClients] :
          cm_cfg = [consensus |-> consensus, messaging |-> messaging, chains |-> chains]
    /\ cm_call = 0
    /\ cm_todo = {}
    /\ cm_clients = <<>>
    /\ cm_l2_hosts = <<>>
    /\ cm_next = 0
    /\ cm_maps = <<>>
    /\ cm_tasks = {}
    /\ cm_log = <<>>
    /\ cm_result = "none"
    /\ NoTasks /\ NoSubmit /\ NoReconnect /\ NoEncode /\ NoClient /\ NoRun /\ NoSetup /\ NoArb
    /\ NoDeposit

NextClientMap ==
    \/ CmBegin
    \/ CmIterate
    \/ CmIterateErr
    \/ CmFinish
    \/ CmSpawnConsensus
    \/ CmSpawnMessaging
    \/ CmSpawnMessagingErr
    \/ CmMessagingSpawned

SpecClientMap == InitClientMap /\ [][NextClientMap]_vars

----------------------------------------------------------------------------
(* HyperbridgeAssetTransactor::deposit_asset *)

MaxAmount == 12

DaFrame == UNCHANGED <<coreVars, clientVars, runVars, setupVars, arbVars, cmVars>>

\* the amounts deposited: the small ones, and some with millions in them
Amounts == (0..MaxAmount) \cup {1999, 1000000, 2000007, 2147000000}

\* Pallet::protocol_fee_percentage(): parts per million
ProtocolFeePercentages == {0, 1, 1000, 250000, 500000, 999999, 1000000}

\* protocol_percentage * x: x / 1e6 * parts, plus the product of the rest and the
\* parts, divided by 1e6 and rounded to the nearest, a half rounded down
PermillMul(parts, x) ==
    LET max == 1000000
        rem_mul == (x % max) * parts
    IN  (x \div max) * parts + (rem_mul \div max)
           + (IF rem_mul % max > max \div 2 THEN 1 ELSE 0)

\* a remainder that is the whole amount
RemainderIsAmount(amount, protocol_fees) == amount

\* let remainder = amount - protocol_fees.into();
Remainder(amount, protocol_fees) == amount - protocol_fees

\* an early return through `?`
DaFails(why) ==
    /\ da_result' = why
    /\ da_pc' = "done"

\* Matcher::matches_fungibles(what)? is an error
DaMatchErr ==
    /\ da_pc = "match"
    /\ ~da_in.handled
    /\ DaFails("AssetNotHandled")
    /\ UNCHANGED <<da_in, da_fees, da_remainder, da_minted, da_dispatched>>
    /\ DaFrame

\* let (asset_id, amount) = Matcher::matches_fungibles(what)?;
DaMatchOk ==
    /\ da_pc = "match"
    /\ da_in.handled
    /\ da_pc' = "convert"
    /\ UNCHANGED <<da_in, da_fees, da_remainder, da_minted, da_dispatched, da_result>>
    /\ DaFrame

\* convert_location(who) is None: Err(MatchError::AccountIdConversionFailed)?
DaConvertNone ==
    /\ da_pc = "convert"
    /\ ~da_in.supported
    /\ DaFails("AccountIdConversionFailed")
    /\ UNCHANGED <<da_in, da_fees, da_remainder, da_minted, da_dispatched>>
    /\ DaFrame

\* convert_location(who) is Some: compute protocol_fees and remainder
DaConvertSome ==
    /\ da_pc = "convert"
    /\ da_in.supported
    /\ da_fees' = PermillMul(da_in.protocol_percentage, da_in.amount)
    /\ da_remainder' = Remainder(da_in.amount, da_fees')
    /\ da_pc' = "mint_fees"
    /\ UNCHANGED <<da_in, da_minted, da_dispatched, da_result>>
    /\ DaFrame

\* T::Assets::mint_into(asset_id.clone(), &protocol_account, protocol_fees.into())
DaMintFeesOk ==
    /\ da_pc = "mint_fees"
    /\ da_minted' = Append(da_minted, [who |-> "protocol_account", amount |-> da_fees])
    /\ da_pc' = "mint_remainder"
    /\ UNCHANGED <<da_in, da_fees, da_remainder, da_dispatched, da_result>>
    /\ DaFrame

DaMintFeesErr ==
    /\ da_pc = "mint_fees"
    /\ DaFails("FailedToTransactAsset")
    /\ UNCHANGED <<da_in, da_fees, da_remainder, da_minted, da_dispatched>>
    /\ DaFrame

\* T::Assets::mint_into(asset_id, &pallet_account, remainder)
DaMintRemainderOk ==
    /\ da_pc = "mint_remainder"
    /\ da_minted' = Append(da_minted, [who |-> "pallet_account", amount |-> da_remainder])
    /\ da_pc' = "dispatch"
    /\ UNCHANGED <<da_in, da_fees, da_remainder, da_dispatched, da_result>>
    /\ DaFrame

DaMintRemainderErr ==
    /\ da_pc = "mint_remainder"
    /\ DaFails("FailedToTransactAsset")
    /\ UNCHANGED <<da_in, da_fees, da_remainder, da_minted, da_dispatched>>
    /\ DaFrame

\* Pallet::<T>::dispatch_request(who, remainder) is Ok; then Ok(())
DaDispatchOk ==
    /\ da_pc = "dispatch"
    /\ da_dispatched' = Append(da_dispatched, da_remainder)
    /\ da_result' = "Ok"
    /\ da_pc' = "done"
    /\ UNCHANGED <<da_in, da_fees, da_remainder, da_minted>>
    /\ DaFrame

DaDispatchErr ==
    /\ da_pc = "dispatch"
    /\ DaFails("FailedToTransactAsset")
    /\ UNCHANGED <<da_in, da_fees, da_remainder, da_minted, da_dispatched>>
    /\ DaFrame

InitDeposit ==
    /\ da_pc = "match"
    /\ \E amount \in Amounts, protocol_percentage \in ProtocolFeePercentages,
          handled \in BOOLEAN, supported \in BOOLEAN :
          da_in = [amount |-> amount, protocol_percentage |-> protocol_percentage,
                   handled |-> handled, supported |-> supported]
    /\ da_fees = 0
    /\ da_remainder = 0
    /\ da_minted = <<>>
    /\ da_dispatched = <<>>
    /\ da_result = "none"
    /\ NoTasks /\ NoSubmit /\ NoReconnect /\ NoEncode /\ NoClient /\ NoRun /\ NoSetup /\ NoArb
    /\ NoClientMap

NextDeposit ==
    \/ DaMatchErr
    \/ DaMatchOk
    \/ DaConvertNone
    \/ DaConvertSome
    \/ DaMintFeesOk
    \/ DaMintFeesErr
    \/ DaMintRemainderOk
    \/ DaMintRemainderErr
    \/ DaDispatchOk
    \/ DaDispatchErr

SpecDeposit == InitDeposit /\ [][NextDeposit]_vars

----------------------------------------------------------------------------
(* Claims about NonceProvider, checked under SpecNonce *)

\* no get_nonce call is in flight
Quiescent == \A t \in Tasks : pc[t] \in {"idle", "panicked"}

ReturnedSet == {returned[i] : i \in 1..Len(returned)}

\* C1: whatever the interleaving, no value is returned twice, and once the n calls
\* made so far have all completed the values returned are exactly
\* initial, initial+1, ..., initial+n-1 (in u64 arithmetic).
C1_ReturnedExactlyRange ==
    /\ \A i, j \in 1..Len(returned) : i # j => returned[i] # returned[j]
    /\ Quiescent =>
         ReturnedSet = {U64WrappingAdd(initial, k) : k \in 0..(Len(returned) - 1)}

\* C1 witness: all calls are over, at least three completed, and two of them
\* completed in the opposite order of their values.
C1_Witness ==
    /\ Quiescent
    /\ Len(returned) >= 3
    /\ initial = StartNonce
    /\ \E i, j \in 1..Len(returned) : i < j /\ U64Lt(returned[j], returned[i])

\* C4 as stated (its ordering half, and only where no u64 overflow is near): a call
\* that completes before another returned the strictly smaller value.
C4_CompletionOrder ==
    initial = StartNonce =>
        \A i, j \in 1..Len(returned) : i < j => U64Lt(returned[i], returned[j])

\* C4 amended: the read and the increment are atomic and the calls are ordered by
\* the order in which they ran their increment, not by completion: the k-th
\* increment read initial+k-1, the counter is initial plus the number of increments
\* run, and every returned value is one of the values read.
C4_IncrementOrder ==
    /\ \A k \in 1..Len(drawn) : drawn[k] = U64WrappingAdd(initial, k - 1)
    /\ counter = U64WrappingAdd(initial, Len(drawn))
    /\ \A t \in Tasks : pc[t] = "gn_read" => local[t] = counter
    /\ \A i \in 1..Len(returned) : \E k \in 1..Len(drawn) : returned[i] = drawn[k]

\* C4 witness: a call has run its increment and released the mutex but has not
\* completed, while a call that drew a larger value has already completed.
C4_Witness ==
    \E t \in Tasks :
        /\ pc[t] = "gn_unlocked"
        /\ \E i \in 1..Len(returned) : U64Lt(local[t], returned[i])

\* C17: the counter never wraps: a call that reads u64::MAX ends in a panic instead
\* of storing a wrapped value, and no call draws a value smaller than one drawn by
\* an earlier increment (the order of the increments, so that calls completing out
\* of order do not count against the statement).
C17_NeverWraps ==
    /\ \A t \in Tasks : pc[t] = "gn_written" => local[t] # U64Max
    /\ \A i, j \in 1..Len(drawn) : i < j => ~U64Lt(drawn[j], drawn[i])

----------------------------------------------------------------------------
(* Claims about submit_messages, checked under SpecSubmit and SpecConcurrent *)

Count(seq, S) == Cardinality({i \in 1..Len(seq) : seq[i] \in S})

Skips == {"decode_skip", "tag_skip", "notget_skip", "unhandled"}

\* transactions of task t that the node accepted
SentBy(t) == Cardinality({i \in 1..Len(chain) : chain[i].by = t})

\* C2 as stated: the nonces of the submitted transactions form a contiguous range
\* starting at the allocator's initial nonce, whatever happened to the other messages
\* of the batch.
C2_SubmittedNoncesContiguous ==
    \A i \in 1..Len(chain) : chain[i].nonce = U64WrappingAdd(initial, i - 1)

\* C3 as stated: a transaction that reaches the chain before another one of the same
\* signer carries the smaller nonce, also with two relay tasks sharing the allocator.
C3_SendOrderIsNonceOrder ==
    \A i, j \in 1..Len(chain) : i < j => U64Lt(chain[i].nonce, chain[j].nonce)

\* C5: a message whose proof does not decode is skipped and nothing else: the task
\* neither panics nor returns because of it, the loop goes on to the messages after
\* it, and when submit_messages returns Ok every message of the batch that was not
\* skipped had its transaction sent.
C5_DecodeFailureIsolated ==
    \A t \in Tasks :
        /\ (stats[t] # <<>> /\ stats[t][Len(stats[t])] = "decode_skip") =>
              /\ pc[t] # "panicked"
              /\ pc[t] = "done" => (idx[t] = batch_len[t] /\ result[t] = "Ok")
        /\ result[t] = "Ok" =>
              /\ Count(stats[t], {"confirmed", "confirm_err", "send_err"})
                    = batch_len[t] - Count(stats[t], Skips)
              /\ SentBy(t) = Count(stats[t], {"confirmed", "confirm_err"})

\* C5 witness: a batch of three ending with a response message, the second message
\* undecodable, returned Ok with exactly the two other transactions on chain.
C5_Witness ==
    \E t \in Tasks :
        /\ result[t] = "Ok"
        /\ batch_len[t] = 3
        /\ msg[t].kind = "Response"
        /\ stats[t] = <<"confirmed", "decode_skip", "confirmed">>
        /\ Len(chain) = 2

\* C6 as stated: a proof whose state-machine tag is neither Polkadot nor Kusama never
\* makes the task panic, whatever the kind of the message.
C6_BadTagNeverPanics ==
    \A t \in Tasks : \A i \in 1..Len(stats[t]) : stats[t][i] # "tag_panic"

\* C7 as stated: submit_messages returns Ok only if every message of the batch had
\* its transaction sent and confirmed.
C7_OkOnlyIfAllIncluded ==
    \A t \in Tasks :
        result[t] = "Ok" => \A i \in 1..Len(stats[t]) : stats[t][i] = "confirmed"

\* C16: the messages of a batch are submitted in input order, one at a time: the
\* transactions reach the node in the order of their messages' positions, a nonce is
\* drawn only after every earlier message of the batch was dealt with (confirmation
\* awaited, or logged and skipped), and when every message was sent and confirmed the
\* k-th transaction is the k-th message with nonce initial + k - 1.
C16_InputOrderOneAtATime ==
    \A t \in Tasks :
        /\ \A i, j \in 1..Len(chain) : i < j => chain[i].pos < chain[j].pos
        /\ Len(drawn) <= Len(stats[t]) + 1
        /\ pc[t] = "wait" => Len(stats[t]) = idx[t] - 1
        /\ (\A i \in 1..Len(stats[t]) : stats[t][i] = "confirmed") =>
              \A k \in 1..Len(chain) :
                  /\ chain[k].pos = k
                  /\ chain[k].nonce = U64WrappingAdd(initial, k - 1)

\* C16 witness: three consensus messages, all accepted and confirmed.
C16_Witness ==
    /\ result["messaging"] = "Ok"
    /\ stats["messaging"] = <<"confirmed", "confirmed", "confirmed">>
    /\ Len(chain) = 3
    /\ \A k \in 1..3 : chain[k].call = "handle_consensus"

\* C22: a call with an empty batch sends no transaction, draws no nonce (the counter
\* stays where it was) and returns Ok, with or without a nonce provider.
C22_EmptyBatchIsNoOp ==
    \A t \in Tasks :
        batch_len[t] = 0 =>
            /\ chain = <<>> /\ drawn = <<>> /\ returned = <<>> /\ counter = initial
            /\ result[t] \in {"none", "Ok"}
            /\ pc[t] = "done" => result[t] = "Ok"

\* C22 witness: the call with an empty batch has returned, on a client that has no
\* nonce provider.
C22_Witness ==
    /\ batch_len["messaging"] = 0
    /\ ~has_np["messaging"]
    /\ pc["messaging"] = "done"
    /\ result["messaging"] = "Ok"

\* C23 as stated: a post-response message whose responses are all of the Get variant
\* is rejected by the encoder, so no handle_post_responses transaction with an empty
\* leaf list is ever sent.
C23_NoEmptyPostResponses ==
    \A k \in 1..Len(chain) :
        chain[k].call = "handle_post_responses" => chain[k].payload # <<>>

\* C24 as stated: the nonce of a transaction the node rejected is not left as a gap.
\* In a batch where every message reached send (nothing was skipped), the accepted
\* transactions carry the consecutive nonces from the allocator's initial value:
\* the nonce of a rejected broadcast is the nonce of the next accepted one.
C24_RejectedNonceNotAGap ==
    \A t \in Tasks :
        (\A i \in 1..Len(stats[t]) : stats[t][i] \in {"send_err", "confirmed", "confirm_err"}) =>
            \A k \in 1..Len(chain) : chain[k].nonce = U64WrappingAdd(initial, k - 1)

\* the places of a task between acquiring the guard and the end of get_nonce's body
\* ("gn_wait": the permit was handed over, the waiter is not yet polled)
UnderLock == {"gn_wait", "gn_locked", "gn_read", "gn_written"}

\* C26: the mutex is held only for the read and the increment, never by a task that
\* returned from get_nonce, is sending or awaits a confirmation; and with the runtime
\* polling the tasks inside get_nonce, every get_nonce call of either relay task
\* returns, also when the other task never gets its confirmation.
C26_GetNonceAlwaysReturns ==
    /\ [](\A t \in holder : pc[t] \in UnderLock)
    /\ \A t \in RelayTasks : (pc[t] = "gn_lock") ~> (pc[t] = "match")

\* C26 witness: get_nonce returned to the messaging task while the consensus task,
\* which drew the nonce before it, awaits the confirmation of its transaction.
C26_Witness ==
    /\ pc["consensus"] = "wait"
    /\ pc["messaging"] = "match"
    /\ holder = NoTask
    /\ returned = <<StartNonce, U64WrappingInc(StartNonce)>>
    /\ nonce["messaging"] = U64WrappingInc(StartNonce)

\* C33: every message of a batch consumes exactly one nonce whatever its outcome: on
\* a client with a nonce provider and short of a panic, once k messages are processed
\* (sent, skipped or rejected by the node) the allocator stands at initial + k, and
\* while the k-th message is matched or awaited it stands at initial + k as well.
C33_OneNoncePerMessage ==
    \A t \in Tasks :
        has_np[t] =>
            /\ pc[t] \in {"loop", "done"} =>
                  /\ Len(stats[t]) = idx[t]
                  /\ counter = U64WrappingAdd(initial, Len(stats[t]))
                  /\ Len(drawn) = Len(stats[t])
            /\ pc[t] \in {"match", "wait"} =>
                  /\ counter = U64WrappingAdd(initial, idx[t])
                  /\ nonce[t] = U64WrappingAdd(initial, idx[t] - 1)

\* C33 witness: a batch of three of which none reached the chain (an undecodable
\* proof, a broadcast the node rejected, a message that is not handled) has moved
\* the allocator by three.
C33_Witness ==
    /\ pc["messaging"] = "done"
    /\ result["messaging"] = "Ok"
    /\ Len(stats["messaging"]) = 3
    /\ stats["messaging"][1] = "decode_skip"
    /\ stats["messaging"][2] = "send_err"
    /\ stats["messaging"][3] \in {"unhandled", "tag_skip"}
    /\ chain = <<>>
    /\ counter = U64WrappingAdd(initial, 3)

\* a get-response message that must not be sent
BadGetResponse(m) ==
    /\ m.kind = "GetResponse"
    /\ \/ \E i \in 1..Len(m.items) : m.items[i] # "Get"
       \/ ~m.decodes
       \/ m.tag \notin {"Polkadot", "Kusama"}

----------------------------------------------------------------------------
(* Claims about the encoder, checked under SpecEncode *)

Encoded == enc_out.done

StrictlyAscending(leaves) ==
    \A i \in 1..(Len(leaves) - 1) : leaves[i].index < leaves[i + 1].index

Ascending(leaves) ==
    \A i \in 1..(Len(leaves) - 1) : leaves[i].index <= leaves[i + 1].index

\* the leaf indices of the proof entries that were paired with an item
PairedIndices == [i \in 1..Min(Len(enc_in.items), Len(enc_in.lpi)) |-> enc_in.lpi[i][2]]

DistinctIndices ==
    \A i, j \in 1..Len(PairedIndices) : i # j => PairedIndices[i] # PairedIndices[j]

\* C8 as stated: the leaves of every encoded PostRequestMessage and PostResponseMessage
\* are strictly ascending by leaf index, for every decoded membership proof.
C8_StrictlyAscending == Encoded => StrictlyAscending(enc_out.leaves)

\* C8 amended: the leaves are ascending by leaf index (each index at most the next),
\* and strictly ascending whenever the proof entries paired with an item carry
\* pairwise distinct leaf indices.
C8_Ascending ==
    Encoded => /\ Ascending(enc_out.leaves)
               /\ DistinctIndices => StrictlyAscending(enc_out.leaves)

\* C8 witness: a proof listing distinct leaf indices in descending order was encoded
\* into at least two leaves.
C8_Witness ==
    /\ Encoded
    /\ Len(enc_out.leaves) >= 2
    /\ DistinctIndices
    /\ \A i \in 1..(Len(PairedIndices) - 1) : PairedIndices[i] > PairedIndices[i + 1]

\* the positions of the datagram's responses that have an entry in the proof
PairedPositions == 1..Min(Len(enc_in.items), Len(enc_in.lpi))

\* the leaf of the response at position i, with the proof entry of that position
OwnLeaf(i) ==
    [item |-> i, index |-> enc_in.lpi[i][2],
     k_index |-> KIndex(enc_in.lpi[i][1], MmrSize(enc_in.leaf_count))]

\* C29: in an encoded PostResponseMessage every leaf is a Post response carrying the
\* (k_index, leaf_index) of its own position in the membership proof, every paired
\* Post response is there exactly once, and no Get response is there.
C29_PostKeepsOwnIndices ==
    (Encoded /\ enc_in.kind = "Response") =>
        /\ \A n \in 1..Len(enc_out.leaves) :
              LET leaf == enc_out.leaves[n]
              IN  /\ leaf.item \in PairedPositions
                  /\ enc_in.items[leaf.item].variant = "Post"
                  /\ leaf = OwnLeaf(leaf.item)
        /\ \A i \in PairedPositions :
              Cardinality({n \in 1..Len(enc_out.leaves) : enc_out.leaves[n].item = i})
                 = IF enc_in.items[i].variant = "Post" THEN 1 ELSE 0

\* C29 witness: a Get response was dropped in front of a Post response whose proof
\* entry differs from the dropped one's.
C29_Witness ==
    /\ Encoded
    /\ enc_in.kind = "Response"
    /\ \E i, j \in PairedPositions :
          /\ i < j
          /\ enc_in.items[i].variant = "Get"
          /\ enc_in.items[j].variant = "Post"
          /\ enc_in.lpi[i] # enc_in.lpi[j]
          /\ \E n \in 1..Len(enc_out.leaves) : enc_out.leaves[n] = OwnLeaf(j)

\* C34: an encoded PostRequestMessage holds exactly min(requests, proof entries)
\* leaves: the i-th request with the position and leaf index of the i-th proof entry,
\* for every i up to that minimum, each once; requests or entries beyond it are
\* dropped and the message is encoded all the same.
C34_RequestsZippedToShorter ==
    (Encoded /\ enc_in.kind = "Request") =>
        /\ Len(enc_out.leaves) = Min(Len(enc_in.items), Len(enc_in.lpi))
        /\ \A i \in PairedPositions :
              Cardinality({n \in 1..Len(enc_out.leaves) : enc_out.leaves[n] = OwnLeaf(i)}) >= 1
        /\ \A n \in 1..Len(enc_out.leaves) :
              /\ enc_out.leaves[n].item \in PairedPositions
              /\ enc_out.leaves[n] = OwnLeaf(enc_out.leaves[n].item)
        /\ \A n, o \in 1..Len(enc_out.leaves) :
              n # o => enc_out.leaves[n].item # enc_out.leaves[o].item

\* C34 witness: three requests came with a proof of two entries listed out of
\* order, and two leaves were encoded.
C34_Witness ==
    /\ Encoded
    /\ enc_in.kind = "Request"
    /\ Len(enc_in.items) = 3
    /\ Len(enc_in.lpi) = 2
    /\ enc_in.lpi[1][2] > enc_in.lpi[2][2]
    /\ Len(enc_out.leaves) = 2
    /\ enc_out.leaves[1].item = 2

----------------------------------------------------------------------------
(* Claims about reconnect_with_exponential_back_off, checked under SpecReconnect *)

\* C9 as stated: the sleep after the k-th failed attempt lasts 1, 2, 4, ..., 512
\* seconds and then starts again at 1.
C9_SleepsStartAtOne ==
    \A k \in 1..Len(sleeps) : sleeps[k] = 2^((k - 1) % 10)

AllFailed == \A k \in 1..Len(outcomes) : ~outcomes[k]

RcSafety ==
    /\ attempts <= reconnects
    /\ Len(outcomes) <= attempts
    /\ rc_pc = "done" <=> rc_result # "none"
    /\ rc_result = "Ok" =>
          /\ outcomes[Len(outcomes)]
          /\ \A k \in 1..(Len(outcomes) - 1) : ~outcomes[k]
          /\ Len(outcomes) = attempts
          /\ Len(sleeps) = attempts - 1
    /\ rc_result = "Err" <=>
          rc_pc = "done" /\ Len(outcomes) = reconnects /\ AllFailed
    /\ \A k \in 1..(Len(outcomes) - 1) : ~outcomes[k]

\* C10: chain.reconnect is called at most `reconnects` times; the function returns Ok
\* right after the first successful call, without another call or sleep; it returns
\* an error exactly when all `reconnects` calls failed; and it always returns.
C10_BoundedAttemptsAndTermination == []RcSafety /\ <>(rc_pc = "done")

\* C10 witness: the third call succeeded after two failures, with calls to spare.
C10_Witness ==
    /\ rc_result = "Ok"
    /\ attempts = 3
    /\ outcomes = <<FALSE, FALSE, TRUE>>
    /\ reconnects > 3

\* C36: every sleep lasts a power of two of seconds from 2 to 512: the k-th sleep
\* lasts 2, 4, .., 512 and then 2 again, so none exceeds 512 and the sleep after a
\* 512-second one lasts 2 seconds.
C36_SleepsBetweenTwoAnd512 ==
    \A k \in 1..Len(sleeps) :
        /\ sleeps[k] \in {2^e : e \in 1..9}
        /\ sleeps[k] = 2^(((k - 1) % 9) + 1)
        /\ (k < Len(sleeps) /\ sleeps[k] = 512) => sleeps[k + 1] = 2

\* C36 witness: ten calls failed; the ninth sleep lasted 512 seconds, the tenth 2.
C36_Witness ==
    /\ Len(sleeps) >= 10
    /\ sleeps[9] = 512
    /\ sleeps[10] = 2

\* the calls of chain.reconnect that failed
FailedAttempts == {k \in 1..Len(outcomes) : ~outcomes[k]}

\* C37: one sleep is made per failed call, the last of them included: the error is
\* only returned after `reconnects` failed calls and as many sleeps, never during a
\* sleep; with reconnects = 0 there is no call and no sleep, only the error.
C37_OneSleepPerFailedAttempt ==
    /\ Len(sleeps) = Cardinality(FailedAttempts)
    /\ rc_pc = "sleep" => (rc_result = "none" /\ ~outcomes[Len(outcomes)])
    /\ rc_pc = "loop" => Len(sleeps) = attempts
    /\ rc_result = "Err" => (Len(sleeps) = reconnects /\ Len(outcomes) = reconnects)
    /\ reconnects = 0 =>
          /\ attempts = 0 /\ outcomes = <<>> /\ sleeps = <<>>
          /\ rc_pc \in {"loop", "done"}
          /\ rc_result = (IF rc_pc = "done" THEN "Err" ELSE "none")

\* C37 witness: both calls of two failed, two sleeps were made, the second after the
\* last call, and the error was returned.
C37_Witness ==
    /\ rc_result = "Err"
    /\ reconnects = 2
    /\ outcomes = <<FALSE, FALSE>>
    /\ sleeps = <<2, 4>>

----------------------------------------------------------------------------
(* Claims about SubstrateClient::reconnect, checked under SpecClient *)

\* C11: a reconnect, successful or not, leaves the client with the very NonceProvider
\* it had: no other counter exists, the counter is never reset, and the nonces drawn
\* through it by the client's task and by the task sharing it, before, during and
\* after reconnects, are start, start+1, start+2, .. in the order drawn.
C11_ReconnectKeepsAllocator ==
    /\ sc_pc = "idle" => sc_client.nonce_provider = sc_orig.nonce_provider
    /\ Len(sc_heap) = (IF sc_orig.nonce_provider = None THEN 0 ELSE 1)
    /\ \A k \in 1..Len(sc_log) : sc_log[k].value = sc_orig.start + k - 1
    /\ sc_orig.nonce_provider # None => sc_heap[1] = sc_orig.start + Len(sc_log)

\* C11 witness: the client's task drew before and after a successful reconnect, and
\* the other task drew in between.
C11_Witness ==
    /\ sc_pc = "idle"
    /\ sc_results = <<"Ok">>
    /\ Len(sc_log) = 3
    /\ sc_log[1].by = "own" /\ sc_log[1].conn = 0
    /\ sc_log[2].by = "peer"
    /\ sc_log[3].by = "own" /\ sc_log[3].conn = 1

\* the client's nonce provider, config and transport client (its connection)
Kept(client) == <<client.nonce_provider, client.config, client.conn>>

\* C38: a reconnect that returns an error does not replace the client: the client's
\* nonce provider, config and transport client change in no step but the one that
\* returns Ok, whether the host's reconnect or the construction of the new client
\* failed, so after any failures the client is on the connection of the last
\* successful reconnect, with its first provider and config, also after a retry.
C38_FailedReconnectKeepsClient ==
    /\ [](sc_pc # "off" =>
            /\ Kept(sc_client) = <<sc_orig.nonce_provider, sc_orig.config, Reconnected>>
            /\ sc_pc = "host" => sc_saved = sc_orig.nonce_provider)
    /\ [][sc_pc # "off" /\ Kept(sc_client') # Kept(sc_client)
              => sc_results' = Append(sc_results, "Ok")]_vars
    /\ [][sc_pc # "off" /\ sc_results' = Append(sc_results, "Err")
              => (Kept(sc_client') = Kept(sc_client) /\ sc_heap' = sc_heap)]_vars

\* C38 witness: the construction of the new client failed after the host had
\* reconnected, the retry succeeded, and the client's task drew from its first
\* provider on the new connection.
C38_Witness ==
    /\ sc_pc = "idle"
    /\ sc_results = <<"Err", "Ok">>
    /\ sc_client.host = 2
    /\ sc_client.conn = 1
    /\ sc_client.nonce_provider = 1
    /\ Len(sc_log) >= 1
    /\ sc_log[Len(sc_log)].by = "own"
    /\ sc_log[Len(sc_log)].conn = 1

\* the log entries drawn first after a successful reconnect
FirstAfterReconnect ==
    {k \in 1..Len(sc_log) :
        /\ sc_log[k].reconnected > 0
        /\ \A h \in 1..(k - 1) : sc_log[h].reconnected < sc_log[k].reconnected}

\* C25 as stated: the nonce drawn next after a successful reconnect is the signer's
\* current on-chain nonce.
C25_NextDrawIsOnChainNonce ==
    \A k \in FirstAfterReconnect : sc_log[k].value = sc_log[k].onchain

\* C25 amended: the nonce drawn next after a successful reconnect continues the
\* counter from its value before the reconnect, whatever the on-chain nonce is: it is
\* the start value plus the number of nonces drawn before, and it is the on-chain
\* nonce only if every nonce drawn before is already in the chain.
C25_NextDrawContinuesCounter ==
    \A k \in FirstAfterReconnect :
        /\ sc_log[k].value = sc_orig.start + k - 1
        /\ sc_log[k].onchain <= sc_log[k].value
        /\ \A h \in 1..(k - 1) : sc_log[h].value < sc_log[k].value

\* C25 witness: the client's task drew a nonce, reconnected successfully and drew
\* the next nonce while the transaction of the first was not in the chain.
C25_Witness ==
    /\ Len(sc_log) >= 2
    /\ 2 \in FirstAfterReconnect
    /\ sc_log[1].by = "own" /\ sc_log[2].by = "own"
    /\ sc_log[2].conn = 1
    /\ sc_log[2].onchain = sc_orig.start
    /\ sc_log[2].value = sc_orig.start + 1

----------------------------------------------------------------------------
(* Claims about Cli::run, checked under SpecRun *)

\* C12: the tasks of one signer share one allocator: every spawned task's spoke client
\* holds the provider the first create_client_map made for that spoke, so the
\* consensus and the messaging task of a spoke hold the same counter, and every
\* task's hub client holds hyperbridge_nonce_provider.
C12_TasksShareAllocator ==
    \A i \in 1..Len(processes) :
        /\ processes[i].client_np = run_nps[processes[i].spoke]
        /\ processes[i].hub_np = run_hub
        /\ processes[i].hub_np # None
        /\ \A j \in 1..Len(processes) :
              processes[i].spoke = processes[j].spoke =>
                  processes[i].client_np = processes[j].client_np

\* C12 witness: both relays are on, every task is spawned, and the second
\* create_client_map has made providers of its own that no task holds.
C12_Witness ==
    /\ run_pc = "join"
    /\ Len(processes) = 2 * NumSpokes
    /\ run_heap = 1 + 2 * NumSpokes
    /\ \E i, j \in 1..Len(processes) :
          /\ processes[i].kind = "consensus" /\ processes[j].kind = "messaging"
          /\ processes[i].spoke = processes[j].spoke

SomeTaskPanicked == \E i \in 1..Len(processes) : processes[i].state = "panic"

\* C13: fail-fast: once a spawned relay task has panicked, Cli::run stops awaiting
\* and returns, whether or not the other tasks ever finish.
C13_FailFast == SomeTaskPanicked ~> (run_pc = "done")

\* C14: Cli::run returns Ok only on a normal shutdown: never when a spawned task
\* panicked or ended with an error.
C14_OkOnlyOnNormalShutdown ==
    run_result = "Ok" =>
        \A i \in 1..Len(processes) : processes[i].state \notin {"panic", "Err"}

\* C32: no relay task exists before the seeding of the consensus states is over; a
\* seeding that fails makes Cli::run return the error at once with no task spawned,
\* and once Cli::run has returned no task is spawned any more.
C32_NoTaskBeforeSeeding ==
    /\ [](run_pc \in {"start", "map", "setup"} => processes = <<>>)
    /\ [][run_pc = "setup" =>
            /\ processes' = <<>>
            /\ run_pc' \in {"consensus", "done"}
            /\ run_pc' = "done" <=> run_result' = "Err"]_vars
    /\ [][run_pc = "done" => (run_pc' = "done" /\ Len(processes') = Len(processes))]_vars

\* C32 witness: with a setup flag and both relays on, the clients were built, the
\* seeding failed, and Cli::run returned the error without any task.
C32_Witness ==
    /\ run_pc = "done"
    /\ run_result = "Err"
    /\ run_cfg.setup /\ run_cfg.consensus /\ run_cfg.messaging
    /\ DOMAIN run_map = Spokes
    /\ processes = <<>>

----------------------------------------------------------------------------
(* Claims about initialize_consensus_clients, checked under SpecSetup *)

\* C15: with setup_eth, a run that met no failure other than a spoke rejecting a
\* duplicate ends with the hub's consensus state installed exactly once on every
\* configured spoke, also when some spokes already held it.
C15_InstalledOnEverySpokeOnce ==
    (/\ st_pc = "done"
     /\ st_flags.setup_eth
     /\ st_result \in {"Ok", "Err_rejected"})
        => \A s \in Spokes : st_installed[s] = 1

\* the installations of spoke s's state on the hub
HubInstallations(s) == {k \in 1..Len(st_log) : st_log[k] = [to |-> "hub", spoke |-> s]}

\* C31: with setup_para, a run that returns Ok has installed on the hub the initial
\* consensus state of every spoke that has one, each exactly once, and has skipped
\* the spokes that have none; in every run no spoke's state is installed twice or
\* without existing, and no hub-to-spoke installation follows a spoke-to-hub one.
C31_SpokeStatesOnHubOnce ==
    /\ \A s \in Spokes :
          /\ Cardinality(HubInstallations(s)) <= (IF st_has[s] THEN 1 ELSE 0)
          /\ (st_pc = "done" /\ st_result = "Ok" /\ st_flags.setup_para) =>
                Cardinality(HubInstallations(s)) = (IF st_has[s] THEN 1 ELSE 0)
    /\ ~st_flags.setup_para => \A k \in 1..Len(st_log) : st_log[k].to = "spoke"
    /\ \A i, j \in 1..Len(st_log) :
          (i < j /\ st_log[i].to = "hub") => st_log[j].to = "hub"

\* C31 witness: with both flags, the run returned Ok after installing the hub's state
\* on both spokes and then the state of the one spoke that has one on the hub.
C31_Witness ==
    /\ st_pc = "done"
    /\ st_result = "Ok"
    /\ st_flags.setup_eth /\ st_flags.setup_para
    /\ \E s \in Spokes : st_has[s]
    /\ \E s \in Spokes : ~st_has[s]
    /\ Len(st_log) = NumSpokes + Cardinality({s \in Spokes : st_has[s]})
    /\ st_log[1].to = "spoke"
    /\ st_log[Len(st_log)].to = "hub"

----------------------------------------------------------------------------
(* Claims about ArbHost, checked under SpecArb *)

LatestReturned == arb_pc # "query" /\ arb_pc # "sort" /\ arb_pc # "last"

\* C18: when the query for the range was answered and the range holds events,
\* latest_event returns one of the events of the range, and no event of the range
\* has a higher node_num, whatever order the query listed them in.
C18_ReturnsHighestNodeNum ==
    (LatestReturned /\ arb_result.status # "Err" /\ InRange # {}) =>
        /\ arb_result.status = "Ok"
        /\ arb_result.value # NoEvent
        /\ \E i \in InRange : arb_result.value = Some(arb_log[i])
        /\ \A i \in InRange : arb_log[i].node_num <= arb_result.value[1].node_num

\* C18 witness: the query listed three events of the range with the highest first.
C18_Witness ==
    /\ arb_pc = "latest_done"
    /\ arb_result.status = "Ok"
    /\ Cardinality(InRange) = 3
    /\ Len(arb_events) = 3
    /\ arb_result.value # NoEvent
    /\ arb_log[1].node_num > arb_log[2].node_num
    /\ arb_log[2].node_num > arb_log[3].node_num

\* C19: when the range holds no NodeCreated event, latest_event does not panic and
\* returns Ok(None); the only error it can return is the one of the query itself,
\* when the node did not answer.
C19_EmptyRangeIsNone ==
    (LatestReturned /\ InRange = {}) =>
        arb_result \in {[status |-> "Ok", value |-> NoEvent],
                        [status |-> "Err", value |-> NoEvent]}

\* C19 witness: the contract emitted events, none of them in the range asked, and
\* the call returned Ok(None).
C19_Witness ==
    /\ arb_pc = "latest_done"
    /\ Len(arb_log) >= 2
    /\ InRange = {}
    /\ arb_range.from <= arb_range.to
    /\ arb_result = [status |-> "Ok", value |-> NoEvent]

\* C20: in every payload returned, the account proof (contract_proof) and the
\* storage proof are both taken at the L1 block `at`, however far the L1 chain has
\* advanced meanwhile, and the storage proof is the one of the event's node.
C20_ProofsAnchoredAtOneBlock ==
    arb_payload.status = "Ok" =>
        /\ arb_payload.contract_proof.block = arb_at
        /\ arb_payload.storage_proof.block = arb_at
        /\ arb_payload.storage_proof.key = StateHashKey(Event)

\* C20 witness: a payload anchored at block 1 was returned after the chain had
\* advanced beyond the block it had reached when the assembly started.
C20_Witness ==
    /\ arb_payload.status = "Ok"
    /\ arb_at = 1
    /\ arb_head > 2

\* C21: a payload is returned only when the L2 header was found and the proof response
\* holds a storage proof entry; when the header for the asserted block hash is not
\* found the call returns an error and no payload, and likewise when the L1 provider
\* answered with an empty storage-proof list.
C21_NoPayloadWithoutHeaderOrProof ==
    /\ arb_payload.status = "Ok" =>
          /\ arb_header.status = "found"
          /\ arb_proof.response.storage_proof # <<>>
          /\ arb_payload.arbitrum_header = arb_header
          /\ arb_payload.storage_proof = arb_proof.response.storage_proof[1]
    /\ (arb_pc = "done" /\ arb_header.status = "missing") => arb_payload.status = "Err"
    /\ (arb_pc = "done" /\ arb_header.status = "found"
          /\ arb_proof.response.storage_proof = <<>>) => arb_payload.status = "Err"

\* C21 witness: the header was found, the event's machine status converts, the
\* response held no storage proof, and the call returned the error.
C21_Witness ==
    /\ arb_pc = "done"
    /\ arb_header.status = "found"
    /\ arb_proof.response.storage_proof = <<>>
    /\ arb_payload = [status |-> "Err", why |-> "storage_proof_not_found"]

\* C27 as stated: a payload is only returned when the event's node was created at an
\* L1 block not after the anchor block `at`.
C27_EventNotAfterAnchor ==
    arb_payload.status = "Ok" => Event.block <= arb_at

\* C28: every payload returned is built from the event passed in: its node number,
\* inbox_max_count and the four global-state values are the event's, the header is
\* the L2 block looked up under bytes_32_vals[0], and the storage proof was requested
\* for the single key derived from (node_num, NODES_SLOT).
C28_PayloadFromEvent ==
    arb_payload.status = "Ok" =>
        /\ arb_payload.node_number = Event.node_num
        /\ arb_payload.inbox_max_count = Event.inbox_max_count
        /\ arb_payload.global_state.block_hash = Event.after_state.global_state.bytes_32_vals[1]
        /\ arb_payload.global_state.send_root = Event.after_state.global_state.bytes_32_vals[2]
        /\ arb_payload.global_state.inbox_position = Event.after_state.global_state.u_64_vals[1]
        /\ arb_payload.global_state.position_in_message
              = Event.after_state.global_state.u_64_vals[2]
        /\ arb_payload.arbitrum_header.hash = Event.after_state.global_state.bytes_32_vals[1]
        /\ arb_proof.request.keys = <<<<Event.node_num, "NODES_SLOT">>>>
        /\ arb_payload.storage_proof.key = <<Event.node_num, "NODES_SLOT">>

\* C28 witness: a payload was returned for the second of two events of the log, the
\* one with the higher node number.
C28_Witness ==
    /\ arb_payload.status = "Ok"
    /\ Len(arb_log) = 2
    /\ Event = arb_log[2]
    /\ arb_log[1].node_num < arb_log[2].node_num

----------------------------------------------------------------------------
(* Claims about create_client_map, checked under SpecClientMap *)

\* the hosts of the Arbitrum, Base and Optimism clients of a client map
L2HostsOfMap(map) ==
    {[tag |-> (CASE map[k].variant = "Arbitrum" -> "Arb"
                 [] map[k].variant = "Base" -> "Base"
                 [] map[k].variant = "Optimism" -> "Op"),
      host |-> map[k].id] :
        k \in {j \in DOMAIN map : map[j].variant \in {"Arbitrum", "Base", "Optimism"}}}

\* the set_l2_hosts calls made on the execution-layer client of a returned map
CallsOn(map) == {k \in 1..Len(cm_log) : cm_log[k].client = map["ExecutionLayer"].id}

\* after create_client_map returned, the execution-layer client of its map was given
\* its registry in exactly one set_l2_hosts call, made in that create_client_map call,
\* and the registry lists exactly the hosts of the map's L2 clients, each once
RegistryGroupsL2Hosts(c) ==
    LET map == cm_maps[c]
    IN  "ExecutionLayer" \in DOMAIN map =>
            /\ Cardinality(CallsOn(map)) = 1
            /\ \A k \in CallsOn(map) :
                  /\ cm_log[k].call = c
                  /\ {cm_log[k].hosts[i] : i \in 1..Len(cm_log[k].hosts)} = L2HostsOfMap(map)
                  /\ Len(cm_log[k].hosts) = Cardinality(L2HostsOfMap(map))

\* C30 as stated: the registry of the execution-layer client holds exactly the hosts
\* of the configured L2 clients, set_l2_hosts is called exactly once on that client,
\* and never after relay tasks have started.
C30_RegistryWrittenBeforeTasks ==
    /\ \A c \in 1..Len(cm_maps) : RegistryGroupsL2Hosts(c)
    /\ \A k \in 1..Len(cm_log) : ~cm_log[k].started

\* C30 amended: the registry of the execution-layer client of every returned client
\* map holds exactly the hosts of that map's L2 clients, whatever the iteration
\* order; set_l2_hosts is called exactly once on each such client, before that
\* client is moved into a relay task; the call of the second create_client_map is
\* made after the consensus tasks have been spawned, when relayer.consensus is set
\* and a chain is configured.
C30_RegistryWrittenOncePerClient ==
    /\ \A c \in 1..Len(cm_maps) : RegistryGroupsL2Hosts(c)
    /\ \A k \in 1..Len(cm_log) :
          /\ ~cm_log[k].moved
          /\ cm_log[k].started <=> (cm_log[k].call = 2 /\ cm_cfg.consensus)

\* C30 witness: with an Ethereum, an Arbitrum and a Base client, both
\* create_client_map calls returned, the second after the consensus tasks were
\* spawned, and the two registries list their hosts in different orders.
C30_Witness ==
    /\ Len(cm_maps) = 2
    /\ Len(cm_log) = 2
    /\ cm_log[2].started
    /\ Len(cm_log[1].hosts) = 2
    /\ cm_log[1].hosts[1].tag = "Arb"
    /\ cm_log[2].hosts[1].tag = "Base"

----------------------------------------------------------------------------
(* Claims about deposit_asset, checked under SpecDeposit *)

\* the sum of the amounts minted into account `who`
RECURSIVE MintedInto(_, _)
MintedInto(who, k) ==
    IF k = 0 THEN 0
    ELSE MintedInto(who, k - 1) + (IF da_minted[k].who = who THEN da_minted[k].amount ELSE 0)

=============================================================================
